---- MODULE Spec2Model ----
(***************************************************************************)
(* A model of the peripheral-side USB gadget API of                        *)
(* include/linux/usb/gadget.h: the gadget connect / disconnect /           *)
(* deactivate / activate accessors and the endpoint enable / disable /     *)
(* queue / dequeue wrappers, together with the controller operations they  *)
(* dispatch to through the operation vectors.                              *)
(***************************************************************************)
EXTENDS Integers, Sequences, FiniteSets, TLC

(***************************************************************************)
(* errno values used by the header (returned negated, as in C).            *)
(***************************************************************************)
EOPNOTSUPP == 95
EINVAL == 22
ESHUTDOWN == 108
ECONNRESET == 104
EAGAIN == 11

\* Error codes a controller operation may hand back (any negative errno;
\* two representatives).
OpErrors == {-EINVAL, -EAGAIN}

\* Result of one invocation of a controller operation: 0 or an error.
OpResults == {0} \cup OpErrors

(***************************************************************************)
(* Gadget connection state machine.                                        *)
(*   connected, deactivated : the bit-fields of struct usb_gadget          *)
(*   pullup_on              : the D+ pullup as the hardware holds it       *)
(*   has_pullup             : gadget->ops->pullup != NULL                  *)
(*   state                  : gadget->state, the device state the bus and  *)
(*                            reset protocol drive                         *)
(*   pullup_ok              : every invocation of ops->pullup so far has   *)
(*                            reported success                             *)
(*   g_last, g_prev, g_prev2: the last three calls made on the gadget,     *)
(*                            each with the state it started from, its     *)
(*                            return value and the pullup invocations made *)
(***************************************************************************)
VARIABLES connected, deactivated, pullup_on, has_pullup, g_last, g_prev,
          g_prev2, state, pullup_ok,
          enabled, desc, maxpacket, maxpacket_limit, hw_enabled, queue,
          hw_done, accepted, ncompl, e_last, link, hw_started, cb,
          overtaken,
          ep0_queue, ep0_older,
          ops_present, speed, halted, wedged, fifo, o_last, dir_in,
          has_gsi_ep_op, ep_type, gsi_phase, gsi_carried, x_last,
          obj, th, start, n_enable, n_disable,
          t_dir, t_maxp, t_reqs, t_head, t_moved, t_ended, wire, t_compl, t_cb,
          a_maxp, a_len, a_quirk, a_ret

gvars == <<connected, deactivated, pullup_on, has_pullup, g_last, g_prev,
           g_prev2, state, pullup_ok>>

\* The endpoint's variables, described with the endpoint below.
evars == <<enabled, desc, maxpacket, maxpacket_limit, hw_enabled, queue,
           hw_done, accepted, ncompl, e_last, link, hw_started, cb,
           overtaken>>

\* The variables of the optional operations, described with them below.
ovars == <<ops_present, speed, halted, wedged, fifo, o_last, dir_in>>

\* The variables of endpoint zero, described with it below.
zvars == <<ep0_queue, ep0_older>>

\* The variables of the offload channel, described with it below.
xvars == <<has_gsi_ep_op, ep_type, gsi_phase, gsi_carried, x_last>>

\* The variables of two calls running at once, described with them below.
cvars == <<obj, th, start, n_enable, n_disable>>

\* The variables of the transfers on the wire, described with them below.
tvars == <<t_dir, t_maxp, t_reqs, t_head, t_moved, t_ended, wire, t_compl,
           t_cb>>

\* The variables of the buffer alignment helpers, described with them below.
avars == <<a_maxp, a_len, a_quirk, a_ret>>

vars == <<gvars, evars, ovars, zvars, xvars, cvars, tvars, avars>>

\* The gadget as the accessors see it.
GState == [connected |-> connected, deactivated |-> deactivated,
           pullup |-> pullup_on]

\* gadget->ops->pullup(gadget, is_on) with outcome res: the controller
\* switches the pullup when it reports success and leaves it alone otherwise.
ops_pullup(p, is_on, res) == IF res = 0 THEN is_on ELSE p

\* What a call hands back: the new state, the return value and the pullup
\* invocations made, in order.
Outcome(s, ret, calls) == [s |-> s, ret |-> ret, calls |-> calls]

PullupCall(is_on, res) == [is_on |-> is_on, res |-> res]

\* --- mutants of usb_gadget_connect -------------------------------------
\* sets connected whatever the pullup operation reports
usb_gadget_connect_unconditional(s, has, res) ==
    IF ~has THEN Outcome(s, -EOPNOTSUPP, <<>>)
    ELSE IF s.deactivated
         THEN Outcome([s EXCEPT !.connected = TRUE], 0, <<>>)
         ELSE Outcome([s EXCEPT !.pullup = ops_pullup(s.pullup, TRUE, res),
                                !.connected = TRUE],
                      res, <<PullupCall(TRUE, res)>>)

\* forgets the deactivated test and always drives the hardware
usb_gadget_connect_ignores_deactivated(s, has, res) ==
    IF ~has THEN Outcome(s, -EOPNOTSUPP, <<>>)
    ELSE Outcome([s EXCEPT !.pullup = ops_pullup(s.pullup, TRUE, res),
                           !.connected = IF res = 0 THEN TRUE ELSE @],
                 res, <<PullupCall(TRUE, res)>>)

\* only records the wish to connect and leaves the pullup alone
usb_gadget_connect_records_only(s, has, res) ==
    IF ~has THEN Outcome(s, -EOPNOTSUPP, <<>>)
    ELSE Outcome([s EXCEPT !.connected = TRUE], 0, <<>>)

usb_gadget_connect(s, has, res) ==
    IF ~has THEN Outcome(s, -EOPNOTSUPP, <<>>)
    ELSE IF s.deactivated
         THEN Outcome([s EXCEPT !.connected = TRUE], 0, <<>>)
         ELSE Outcome([s EXCEPT !.pullup = ops_pullup(s.pullup, TRUE, res),
                                !.connected = IF res = 0 THEN TRUE ELSE @],
                      res, <<PullupCall(TRUE, res)>>)

\* --- mutant of usb_gadget_disconnect ------------------------------------
\* clears connected whatever the pullup operation reports
usb_gadget_disconnect_unconditional(s, has, res) ==
    IF ~has THEN Outcome(s, -EOPNOTSUPP, <<>>)
    ELSE IF s.deactivated
         THEN Outcome([s EXCEPT !.connected = FALSE], 0, <<>>)
         ELSE Outcome([s EXCEPT !.pullup = ops_pullup(s.pullup, FALSE, res),
                                !.connected = FALSE],
                      res, <<PullupCall(FALSE, res)>>)

\* drives the pullup and leaves connected as it was
usb_gadget_disconnect_keeps_connected(s, has, res) ==
    IF ~has THEN Outcome(s, -EOPNOTSUPP, <<>>)
    ELSE IF s.deactivated
         THEN Outcome([s EXCEPT !.connected = FALSE], 0, <<>>)
         ELSE Outcome([s EXCEPT !.pullup = ops_pullup(s.pullup, FALSE, res)],
                      res, <<PullupCall(FALSE, res)>>)

usb_gadget_disconnect(s, has, res) ==
    IF ~has THEN Outcome(s, -EOPNOTSUPP, <<>>)
    ELSE IF s.deactivated
         THEN Outcome([s EXCEPT !.connected = FALSE], 0, <<>>)
         ELSE Outcome([s EXCEPT !.pullup = ops_pullup(s.pullup, FALSE, res),
                                !.connected = IF res = 0 THEN FALSE ELSE @],
                      res, <<PullupCall(FALSE, res)>>)

\* --- mutants of usb_gadget_deactivate ----------------------------------
\* marks the gadget deactivated without disconnecting it first
usb_gadget_deactivate_no_disconnect(s, has, res) ==
    IF s.deactivated THEN Outcome(s, 0, <<>>)
    ELSE Outcome([s EXCEPT !.deactivated = TRUE], 0, <<>>)

\* disconnects but does not restore the connect intent
usb_gadget_deactivate_loses_intent(s, has, res) ==
    IF s.deactivated THEN Outcome(s, 0, <<>>)
    ELSE IF s.connected
         THEN LET d == usb_gadget_disconnect(s, has, res) IN
              IF d.ret # 0 THEN d
              ELSE Outcome([d.s EXCEPT !.deactivated = TRUE], 0, d.calls)
         ELSE Outcome([s EXCEPT !.deactivated = TRUE], 0, <<>>)

usb_gadget_deactivate(s, has, res) ==
    IF s.deactivated THEN Outcome(s, 0, <<>>)
    ELSE IF s.connected
         THEN LET d == usb_gadget_disconnect(s, has, res) IN
              IF d.ret # 0 THEN d
              ELSE Outcome([d.s EXCEPT !.connected = TRUE,
                                       !.deactivated = TRUE], 0, d.calls)
         ELSE Outcome([s EXCEPT !.deactivated = TRUE], 0, <<>>)

\* --- mutants of usb_gadget_activate ------------------------------------
\* leaves the deactivated flag set, so the replayed connect only records
usb_gadget_activate_keeps_deactivated(s, has, res) ==
    IF ~s.deactivated THEN Outcome(s, 0, <<>>)
    ELSE IF s.connected THEN usb_gadget_connect(s, has, res)
         ELSE Outcome(s, 0, <<>>)

\* no early return on a gadget that is already active
usb_gadget_activate_no_active_test(s, has, res) ==
    LET s1 == [s EXCEPT !.deactivated = FALSE] IN
    IF s1.connected THEN usb_gadget_connect(s1, has, res)
    ELSE Outcome(s1, 0, <<>>)

\* clears the flag but does not replay the recorded connect
usb_gadget_activate_no_replay(s, has, res) ==
    IF ~s.deactivated THEN Outcome(s, 0, <<>>)
    ELSE Outcome([s EXCEPT !.deactivated = FALSE], 0, <<>>)

usb_gadget_activate(s, has, res) ==
    IF ~s.deactivated THEN Outcome(s, 0, <<>>)
    ELSE LET s1 == [s EXCEPT !.deactivated = FALSE] IN
         IF s1.connected THEN usb_gadget_connect(s1, has, res)
         ELSE Outcome(s1, 0, <<>>)

\* The record kept of one call.
GCall(op, pre, o) == [op |-> op, pre |-> pre, ret |-> o.ret, calls |-> o.calls]

NoGCall == [op |-> "none",
            pre |-> [connected |-> FALSE, deactivated |-> FALSE, pullup |-> FALSE],
            ret |-> 0, calls |-> <<>>]

\* gadget->state: the device states in their order, the first being the one
\* of a gadget no cable is attached to.
DeviceStates == <<"USB_STATE_NOTATTACHED", "USB_STATE_ATTACHED",
                  "USB_STATE_POWERED", "USB_STATE_DEFAULT">>

\* The position of state st in that order.
StateRank(st) == CHOOSE i \in DOMAIN DeviceStates : DeviceStates[i] = st

\* One whole call on the gadget: the state moves to the call's outcome.
GApply(op, o) ==
    /\ connected' = o.s.connected
    /\ deactivated' = o.s.deactivated
    /\ pullup_on' = o.s.pullup
    /\ g_prev' = g_last
    /\ g_prev2' = g_prev
    /\ g_last' = GCall(op, GState, o)
    /\ pullup_ok' = (pullup_ok /\ \A i \in DOMAIN o.calls : o.calls[i].res = 0)
    /\ UNCHANGED <<has_pullup, state, evars, ovars, zvars, xvars, cvars,
                   tvars, avars>>

GInit ==
    /\ connected = FALSE
    /\ deactivated = FALSE
    /\ pullup_on = FALSE
    /\ has_pullup \in BOOLEAN
    /\ g_last = NoGCall
    /\ g_prev = NoGCall
    /\ g_prev2 = NoGCall
    /\ state = DeviceStates[1]
    /\ pullup_ok = TRUE

Connect == \E res \in OpResults :
    GApply("connect", usb_gadget_connect(GState, has_pullup, res))

Disconnect == \E res \in OpResults :
    GApply("disconnect", usb_gadget_disconnect(GState, has_pullup, res))

Deactivate == \E res \in OpResults :
    GApply("deactivate", usb_gadget_deactivate(GState, has_pullup, res))

Activate == \E res \in OpResults :
    GApply("activate", usb_gadget_activate(GState, has_pullup, res))

\* usb_gadget_set_state(gadget, st): the controller driver records the state
\* the bus has brought the device to; the host resets the device (default)
\* only when it sees the pullup.
SetState == \E i \in DOMAIN DeviceStates :
    /\ DeviceStates[i] # state
    /\ DeviceStates[i] = "USB_STATE_DEFAULT" => pullup_on
    /\ state' = DeviceStates[i]
    /\ UNCHANGED <<connected, deactivated, pullup_on, has_pullup, g_last,
                   g_prev, g_prev2, pullup_ok, evars, ovars, zvars, xvars, cvars, tvars,
                   avars>>

GNext == Connect \/ Disconnect \/ Deactivate \/ Activate \/ SetState


(***************************************************************************)
(* Endpoint enable / disable and request queueing.                         *)
(*   enabled, desc, maxpacket, maxpacket_limit : fields of struct usb_ep   *)
(*   hw_enabled : the controller's own view of the endpoint, set by its    *)
(*                enable operation and cleared by its disable operation    *)
(*   queue      : the requests the controller holds for the endpoint, FIFO *)
(*   hw_done    : the request whose transfer the hardware has finished and *)
(*                whose completion interrupt is still to be serviced       *)
(*   hw_started : the request whose transfer the hardware has begun and    *)
(*                not yet finished                                         *)
(*   link       : whether the device is connected to a host                *)
(*   cb         : the completion callback the interrupt handler is running *)
(*                (request and status), if any                             *)
(*   overtaken  : the requests that were queued before a request given     *)
(*                back by the most recent call or interrupt, and were      *)
(*                still queued when it was given back                      *)
(*   accepted   : per request, whether a queue attempt of it was accepted  *)
(*   ncompl     : per request, completion callbacks delivered since its    *)
(*                last accepted queue attempt                              *)
(*   e_last     : the last call made on the endpoint: its arguments, the   *)
(*                state before and at return, the controller operations it *)
(*                invoked, the completions delivered inside it, and the    *)
(*                completions delivered since it returned, and what the    *)
(*                controller's enable or disable operation handed back     *)
(***************************************************************************)

\* Number of request objects the gadget driver has allocated.
NumReqs == 2

\* ncompl counts up to here; a count at the cap means "that many or more".
ComplCap == 2

Reqs == 1..NumReqs
NoReq == 0

\* The endpoint descriptors a gadget driver may point ep->desc at, by their
\* wMaxPacketSize; pointer 0 is NULL.
Descriptors == <<[wMaxPacketSize |-> 0], [wMaxPacketSize |-> 512]>>
NULL == 0
DescPtrs == {NULL} \cup DOMAIN Descriptors

\* Hardware ceilings a controller driver may give an endpoint.
MaxpacketLimits == {64, 1024}

\* usb_endpoint_maxp(desc): the descriptor's wMaxPacketSize.
usb_endpoint_maxp(d) == Descriptors[d].wMaxPacketSize

\* The endpoint as the wrappers and the controller see it.
EState == [enabled |-> enabled, desc |-> desc, maxpacket |-> maxpacket,
           maxpacket_limit |-> maxpacket_limit, hw_enabled |-> hw_enabled,
           queue |-> queue, hw_done |-> hw_done, hw_started |-> hw_started,
           link |-> link]

\* --- mutant of usb_ep_set_maxpacket_limit ------------------------------
\* sets the packet size in use and leaves the ceiling as it was
usb_ep_set_maxpacket_limit_no_limit(e, limit) == [e EXCEPT !.maxpacket = limit]

\* usb_ep_set_maxpacket_limit applied to a fresh endpoint.
usb_ep_set_maxpacket_limit(e, limit) ==
    [e EXCEPT !.maxpacket_limit = limit, !.maxpacket = limit]

InQueue(q, r) == \E i \in DOMAIN q : q[i] = r

Without(q, r) == SelectSeq(q, LAMBDA x : x # r)

Completion(r, status) == [req |-> r, status |-> status]

\* What a call on the endpoint hands back: the new endpoint state, the
\* return value, the controller operations invoked (in order), the
\* completion callbacks run inside the call (in order) and whether a request
\* was accepted into the queue.
EOutcome(e, ret, ops, compl, acc) ==
    [e |-> e, ret |-> ret, ops |-> ops, compl |-> compl, acc |-> acc]

\* ep->ops->enable with outcome res: the controller configures the endpoint
\* when it reports success, and reduces ep->maxpacket to the descriptor's
\* packet size when the hardware can handle that size.
ops_enable(e, res) ==
    IF res = 0
    THEN EOutcome([e EXCEPT !.hw_enabled = TRUE,
                            !.maxpacket =
                               IF usb_endpoint_maxp(e.desc) <= e.maxpacket_limit
                               THEN usb_endpoint_maxp(e.desc) ELSE @],
                  0, <<"enable">>, <<>>, FALSE)
    ELSE EOutcome(e, res, <<"enable">>, <<>>, FALSE)

\* ep->ops->disable with outcome res: on success every request still queued
\* is completed with -ESHUTDOWN before the operation returns, a transfer in
\* progress or finished with its interrupt pending goes with them, the
\* endpoint is shut down and its descriptor pointer is cleared.
ops_disable(e, res) ==
    IF res = 0
    THEN EOutcome([e EXCEPT !.hw_enabled = FALSE, !.queue = <<>>,
                            !.hw_done = NoReq, !.hw_started = NoReq,
                            !.desc = NULL],
                  0, <<"disable">>,
                  [i \in DOMAIN e.queue |-> Completion(e.queue[i], -ESHUTDOWN)],
                  FALSE)
    ELSE EOutcome(e, res, <<"disable">>, <<>>, FALSE)

\* ep->ops->queue with outcome res: not-ready (-ESHUTDOWN) on an endpoint
\* the controller has not enabled or while the device is disconnected;
\* otherwise the request is accepted at the tail of the queue unless the
\* controller refuses it with an error.
ops_queue(e, r, res) ==
    IF ~e.hw_enabled \/ ~e.link THEN EOutcome(e, -ESHUTDOWN, <<"queue">>, <<>>, FALSE)
    ELSE IF res # 0 THEN EOutcome(e, res, <<"queue">>, <<>>, FALSE)
    ELSE EOutcome([e EXCEPT !.queue = Append(@, r)], 0, <<"queue">>, <<>>, TRUE)

\* ep->ops->dequeue: a request still queued is unlinked and completed with
\* -ECONNRESET before the operation returns (a finished transfer of it whose
\* interrupt was pending is dropped); any other request is not found.
ops_dequeue(e, r) ==
    IF InQueue(e.queue, r)
    THEN EOutcome([e EXCEPT !.queue = Without(@, r),
                            !.hw_done = IF @ = r THEN NoReq ELSE @,
                            !.hw_started = IF @ = r THEN NoReq ELSE @],
                  0, <<"dequeue">>, <<Completion(r, -ECONNRESET)>>, FALSE)
    ELSE EOutcome(e, -EINVAL, <<"dequeue">>, <<>>, FALSE)

\* --- mutants of usb_ep_enable ------------------------------------------
\* no early return on an endpoint that is already enabled
usb_ep_enable_no_enabled_test(e, res) ==
    IF usb_endpoint_maxp(e.desc) = 0
    THEN EOutcome(e, -EINVAL, <<>>, <<>>, FALSE)
    ELSE LET o == ops_enable(e, res) IN
         IF o.ret # 0 THEN o
         ELSE [o EXCEPT !.e.enabled = TRUE]

\* no test of the descriptor's packet size
usb_ep_enable_no_maxp_test(e, res) ==
    IF e.enabled THEN EOutcome(e, 0, <<>>, <<>>, FALSE)
    ELSE LET o == ops_enable(e, res) IN
         IF o.ret # 0 THEN o
         ELSE [o EXCEPT !.e.enabled = TRUE]

\* takes the endpoint for enabled whatever the controller answers
usb_ep_enable_ignores_result(e, res) ==
    IF e.enabled THEN EOutcome(e, 0, <<>>, <<>>, FALSE)
    ELSE IF usb_endpoint_maxp(e.desc) = 0
    THEN EOutcome(e, -EINVAL, <<>>, <<>>, FALSE)
    ELSE LET o == ops_enable(e, res) IN
         [o EXCEPT !.e.enabled = TRUE, !.ret = 0]

usb_ep_enable(e, res) ==
    IF e.enabled THEN EOutcome(e, 0, <<>>, <<>>, FALSE)
    ELSE IF usb_endpoint_maxp(e.desc) = 0
    THEN EOutcome(e, -EINVAL, <<>>, <<>>, FALSE)
    ELSE LET o == ops_enable(e, res) IN
         IF o.ret # 0 THEN o
         ELSE [o EXCEPT !.e.enabled = TRUE]

\* --- mutants of usb_ep_disable -----------------------------------------
\* clears the flag without asking the controller to shut the endpoint down
usb_ep_disable_skips_controller(e, res) ==
    IF ~e.enabled THEN EOutcome(e, 0, <<>>, <<>>, FALSE)
    ELSE EOutcome([e EXCEPT !.enabled = FALSE], 0, <<>>, <<>>, FALSE)

\* takes the endpoint for disabled whatever the controller answers
usb_ep_disable_ignores_result(e, res) ==
    IF ~e.enabled THEN EOutcome(e, 0, <<>>, <<>>, FALSE)
    ELSE LET o == ops_disable(e, res) IN
         [o EXCEPT !.e.enabled = FALSE, !.ret = 0]

usb_ep_disable(e, res) ==
    IF ~e.enabled THEN EOutcome(e, 0, <<>>, <<>>, FALSE)
    ELSE LET o == ops_disable(e, res) IN
         IF o.ret # 0 THEN o
         ELSE [o EXCEPT !.e.enabled = FALSE]

\* --- mutants of usb_ep_queue --------------------------------------------
\* links the request itself, whatever the state of endpoint and device
usb_ep_queue_bypasses_controller(e, r, res) ==
    EOutcome([e EXCEPT !.queue = Append(@, r)], 0, <<>>, <<>>, TRUE)

\* links the request at the head of the queue
usb_ep_queue_at_head(e, r, res) ==
    LET o == ops_queue(e, r, res) IN
    IF o.ret # 0 THEN o ELSE [o EXCEPT !.e.queue = <<r>> \o e.queue]

\* runs the completion callback with the error it is about to return
usb_ep_queue_completes_on_error(e, r, res) ==
    LET o == ops_queue(e, r, res) IN
    IF o.ret # 0 THEN [o EXCEPT !.compl = <<Completion(r, o.ret)>>] ELSE o

usb_ep_queue(e, r, res) == ops_queue(e, r, res)

\* --- mutant of usb_ep_dequeue ------------------------------------------
\* reports success without handing the request to the controller
usb_ep_dequeue_skips_controller(e, r) == EOutcome(e, 0, <<>>, <<>>, FALSE)

usb_ep_dequeue(e, r) == ops_dequeue(e, r)

\* The interrupt handler gives back the request whose transfer finished:
\* it leaves the queue and its completion callback runs with the transfer's
\* status (usb_gadget_giveback_request).
usb_gadget_giveback_request(e, status) ==
    EOutcome([e EXCEPT !.queue = Without(@, e.hw_done), !.hw_done = NoReq],
             0, <<>>, <<Completion(e.hw_done, status)>>, FALSE)

\* Completion callbacks in `compl` counted onto nc.
Delivered(nc, compl) ==
    [r \in Reqs |->
        LET n == nc[r] + Cardinality({i \in DOMAIN compl : compl[i].req = r})
        IN IF n > ComplCap THEN ComplCap ELSE n]

\* The requests of queue q that are older than a request completed in
\* `compl` and had not been completed when it was.
Overtaken(q, compl) ==
    {q[j] : j \in {k \in DOMAIN q :
                     \E i \in DOMAIN compl :
                        /\ \E m \in DOMAIN q : m > k /\ q[m] = compl[i].req
                        /\ \A n \in 1..(i - 1) : compl[n].req # q[k]}}

\* Transfer statuses the hardware may report: 0 or an error (any negative
\* errno; one representative).
XferResults == {0, -EINVAL}

\* No completion callback is running.
NoCb == [req |-> NoReq, status |-> 0]

\* A completion callback for a failed request is running.
ErrorCallbackRunning(c) == c.req # NoReq /\ c.status # 0

\* The record of "no call yet" on an endpoint in state e.
NoECall(e) == [op |-> "none", req |-> NoReq, ret |-> 0, ops |-> <<>>,
               compl |-> <<>>, after |-> <<>>, pre |-> e, post |-> e,
               cb |-> NoCb, opres |-> 0]

SetEState(e) ==
    /\ enabled' = e.enabled
    /\ desc' = e.desc
    /\ maxpacket' = e.maxpacket
    /\ maxpacket_limit' = e.maxpacket_limit
    /\ hw_enabled' = e.hw_enabled
    /\ queue' = e.queue
    /\ hw_done' = e.hw_done
    /\ hw_started' = e.hw_started
    /\ link' = e.link

\* One whole call on the endpoint with request argument r (NoReq if none),
\* made from task context or from inside the running completion callback;
\* res is what the controller's enable or disable operation hands back if
\* the call invokes it.
EApply(op, r, res, o) ==
    /\ SetEState(o.e)
    /\ accepted' = IF o.acc THEN [accepted EXCEPT ![r] = TRUE] ELSE accepted
    /\ ncompl' = IF o.acc THEN [ncompl EXCEPT ![r] = 0]
                 ELSE Delivered(ncompl, o.compl)
    /\ e_last' = [op |-> op, req |-> r, ret |-> o.ret, ops |-> o.ops,
                  compl |-> o.compl, after |-> <<>>,
                  pre |-> EState, post |-> o.e, cb |-> cb,
                  opres |-> IF op \in {"enable", "disable"} /\ o.ops # <<>>
                            THEN res ELSE 0]
    /\ overtaken' = Overtaken(queue, o.compl)
    /\ UNCHANGED <<cb, gvars, ovars, zvars, xvars, cvars, tvars, avars>>

EInit ==
    /\ \E limit \in MaxpacketLimits :
         LET e == usb_ep_set_maxpacket_limit(
                     [enabled |-> FALSE, desc |-> NULL, maxpacket |-> 0,
                      maxpacket_limit |-> 0, hw_enabled |-> FALSE,
                      queue |-> <<>>, hw_done |-> NoReq,
                      hw_started |-> NoReq, link |-> FALSE], limit)
         IN /\ enabled = e.enabled
            /\ desc = e.desc
            /\ maxpacket = e.maxpacket
            /\ maxpacket_limit = e.maxpacket_limit
            /\ hw_enabled = e.hw_enabled
            /\ queue = e.queue
            /\ hw_done = e.hw_done
            /\ hw_started = e.hw_started
            /\ link = e.link
            /\ e_last = NoECall(e)
    /\ cb = NoCb
    /\ overtaken = {}
    /\ accepted = [r \in Reqs |-> FALSE]
    /\ ncompl = [r \in Reqs |-> 0]

\* The gadget driver points ep->desc at a descriptor before enabling the
\* endpoint.
SetDesc == \E d \in DOMAIN Descriptors :
    /\ ~enabled
    /\ d # desc
    /\ EApply("set_desc", NoReq, 0,
              EOutcome([EState EXCEPT !.desc = d], 0, <<>>, <<>>, FALSE))

\* usb_ep_enable; ep->desc is set before the endpoint is enabled.
Enable == \E res \in OpResults :
    /\ enabled \/ desc # NULL
    /\ EApply("enable", NoReq, res, usb_ep_enable(EState, res))

Disable == \E res \in OpResults :
    EApply("disable", NoReq, res, usb_ep_disable(EState, res))

\* usb_ep_queue of a request the gadget driver owns (one not queued now).
Queue == \E r \in Reqs, res \in OpResults :
    /\ ~InQueue(queue, r)
    /\ EApply("queue", r, res, usb_ep_queue(EState, r, res))

Dequeue == \E r \in Reqs :
    EApply("dequeue", r, 0, usb_ep_dequeue(EState, r))

\* The host attaches: the device is connected.
BusConnect ==
    /\ ~link
    /\ link' = TRUE
    /\ UNCHANGED <<enabled, desc, maxpacket, maxpacket_limit, hw_enabled,
                   queue, hw_done, hw_started, accepted, ncompl, e_last, cb,
                   overtaken, gvars, ovars, zvars, xvars, cvars, tvars, avars>>

\* The link goes down: the controller gives back every queued request, of
\* this endpoint and of endpoint zero, with -ESHUTDOWN from its disconnect
\* interrupt.
BusDisconnect ==
    /\ link
    /\ cb = NoCb
    /\ LET compl == [i \in DOMAIN queue |-> Completion(queue[i], -ESHUTDOWN)]
       IN /\ link' = FALSE
          /\ queue' = <<>>
          /\ hw_done' = NoReq
          /\ hw_started' = NoReq
          /\ ncompl' = Delivered(ncompl, compl)
          /\ e_last' = [e_last EXCEPT !.after = @ \o compl]
          /\ overtaken' = Overtaken(queue, compl)
    /\ ep0_queue' = <<>>
    /\ ep0_older' = NoReq
    /\ UNCHANGED <<enabled, desc, maxpacket, maxpacket_limit, hw_enabled,
                   accepted, cb, gvars, ovars, xvars, cvars, tvars, avars>>

\* mutant: the hardware moves on while an error callback is running
HwStart_during_error_callback ==
    /\ hw_enabled
    /\ link
    /\ queue # <<>>
    /\ hw_started = NoReq
    /\ hw_done = NoReq
    /\ hw_started' = Head(queue)
    /\ UNCHANGED <<enabled, desc, maxpacket, maxpacket_limit, hw_enabled,
                   queue, hw_done, link, accepted, ncompl, e_last, cb,
                   overtaken, gvars, ovars, zvars, xvars, cvars, tvars, avars>>

\* The hardware starts the transfer of the request at the head of the queue.
\* It handles one request at a time, and after a request has completed with
\* an error it starts nothing until that request's completion callback has
\* returned.
HwStart ==
    /\ hw_enabled
    /\ link
    /\ queue # <<>>
    /\ hw_started = NoReq
    /\ hw_done = NoReq
    /\ ~ErrorCallbackRunning(cb)
    /\ hw_started' = Head(queue)
    /\ UNCHANGED <<enabled, desc, maxpacket, maxpacket_limit, hw_enabled,
                   queue, hw_done, link, accepted, ncompl, e_last, cb,
                   overtaken, gvars, ovars, zvars, xvars, cvars, tvars, avars>>

\* The hardware finishes the transfer it had started and raises its
\* completion interrupt.
HwFinish ==
    /\ hw_started # NoReq
    /\ hw_done = NoReq
    /\ hw_done' = hw_started
    /\ hw_started' = NoReq
    /\ UNCHANGED <<enabled, desc, maxpacket, maxpacket_limit, hw_enabled,
                   queue, link, accepted, ncompl, e_last, cb, overtaken,
                   gvars, ovars, zvars, xvars, cvars, tvars, avars>>

\* The completion interrupt is serviced: the finished request is given back
\* with status 0 or a transfer error, and its completion callback begins.
Giveback == \E status \in XferResults :
    /\ hw_done # NoReq
    /\ cb = NoCb
    /\ LET o == usb_gadget_giveback_request(EState, status) IN
         /\ SetEState(o.e)
         /\ ncompl' = Delivered(ncompl, o.compl)
         /\ e_last' = [e_last EXCEPT !.after = @ \o o.compl]
         /\ cb' = o.compl[1]
         /\ overtaken' = Overtaken(queue, o.compl)
         /\ UNCHANGED <<accepted, gvars, ovars, zvars, xvars, cvars, tvars,
                        avars>>

\* The completion callback returns to the interrupt handler.
CallbackReturn ==
    /\ cb # NoCb
    /\ cb' = NoCb
    /\ UNCHANGED <<enabled, desc, maxpacket, maxpacket_limit, hw_enabled,
                   queue, hw_done, hw_started, link, accepted, ncompl, e_last,
                   overtaken, gvars, ovars, zvars, xvars, cvars, tvars, avars>>

ENext ==
    \/ SetDesc
    \/ Enable
    \/ Disable
    \/ Queue
    \/ Dequeue
    \/ BusConnect
    \/ BusDisconnect
    \/ HwStart
    \/ HwFinish
    \/ Giveback
    \/ CallbackReturn

(***************************************************************************)
(* Endpoint zero, the other endpoint of the gadget: the controller keeps   *)
(* it usable whenever the device is connected, and the gadget driver       *)
(* queues one response on it per setup request.                            *)
(*   ep0_queue : the requests the controller holds for endpoint zero       *)
(*   ep0_older : while the response is queued, the request that was the    *)
(*               oldest on the other endpoint when the response was        *)
(*               queued; once the response has completed, that request if  *)
(*               it was still queued at the completion                     *)
(***************************************************************************)
Ep0Req == 1

\* Endpoint zero as the wrappers and the controller see it.
Ep0State == [enabled |-> TRUE, desc |-> NULL, maxpacket |-> 64,
             maxpacket_limit |-> 64, hw_enabled |-> TRUE,
             queue |-> ep0_queue, hw_done |-> NoReq, hw_started |-> NoReq,
             link |-> link]

ZInit ==
    /\ ep0_queue = <<>>
    /\ ep0_older = NoReq

\* usb_ep_queue of the response on endpoint zero.
Ep0Queue == \E res \in OpResults :
    /\ ~InQueue(ep0_queue, Ep0Req)
    /\ LET o == usb_ep_queue(Ep0State, Ep0Req, res) IN
         /\ ep0_queue' = o.e.queue
         /\ ep0_older' = IF o.acc /\ queue # <<>> THEN Head(queue) ELSE NoReq
    /\ UNCHANGED <<gvars, evars, ovars, xvars, cvars, tvars, avars>>

\* The transfer of the response finishes and it is given back.
Ep0Giveback ==
    /\ ep0_queue # <<>>
    /\ LET e == [Ep0State EXCEPT !.hw_done = Head(ep0_queue)]
           o == usb_gadget_giveback_request(e, 0)
       IN /\ ep0_queue' = o.e.queue
          /\ ep0_older' = IF InQueue(queue, ep0_older) THEN ep0_older
                          ELSE NoReq
    /\ UNCHANGED <<gvars, evars, ovars, xvars, cvars, tvars, avars>>

\* Two endpoints side by side.
EpsNext ==
    \/ SetDesc
    \/ Enable
    \/ Disable
    \/ Queue
    \/ Dequeue
    \/ BusConnect
    \/ BusDisconnect
    \/ HwStart
    \/ HwFinish
    \/ Giveback
    \/ CallbackReturn
    \/ Ep0Queue
    \/ Ep0Giveback

(***************************************************************************)
(* Halt control and the optional operations of the two operation vectors.  *)
(*   ops_present : the optional entries the controller driver filled in    *)
(*                 (set_halt is not optional: it is called unchecked)      *)
(*   speed       : gadget->speed                                           *)
(*   halted, wedged, fifo : the endpoint hardware: halt feature, wedge,    *)
(*                 and the bytes sitting unclaimed in its FIFO             *)
(*   o_last      : the last wrapper called: its name, return value, the    *)
(*                 table entries it invoked and the hardware state before  *)
(*                 and after                                               *)
(***************************************************************************)
FifoCap == 1

OptionalOps == {"set_wedge", "fifo_status", "fifo_flush",
                "wakeup", "func_wakeup", "restart"}

Speeds == {"USB_SPEED_UNKNOWN", "USB_SPEED_HIGH", "USB_SPEED_SUPER"}

USB_SPEED_SUPER == "USB_SPEED_SUPER"

\* The endpoint hardware as the controller operations see it.
HState == [halted |-> halted, wedged |-> wedged, fifo |-> fifo,
           dir_in |-> dir_in, queued |-> queue # <<>>]

\* One invocation of a table entry, with its argument and result.
OpCall(name, arg, res) == [name |-> name, arg |-> arg, res |-> res]

\* What a wrapper leaves behind: the hardware, the value returned (0 for a
\* wrapper returning void) and the table entries invoked.
OOutcome(h, ret, invoked) == [h |-> h, ret |-> ret, invoked |-> invoked]

\* --- controller operations ----------------------------------------------
\* ep->ops->set_halt(ep, value), answering res unless the endpoint is busy:
\* an IN endpoint with a request still queued, or with bytes in the FIFO the
\* host has not collected, is not halted and the answer is -EAGAIN.
HaltBusy(h) == h.dir_in /\ (h.queued \/ h.fifo > 0)

ops_set_halt(h, value, res) ==
    IF value = 1 /\ HaltBusy(h) THEN [h |-> h, ret |-> -EAGAIN]
    ELSE IF res # 0 THEN [h |-> h, ret |-> res]
    ELSE IF value = 1 THEN [h |-> [h EXCEPT !.halted = TRUE], ret |-> 0]
    ELSE [h |-> [h EXCEPT !.halted = FALSE, !.wedged = FALSE], ret |-> 0]

ops_set_wedge(h, res) ==
    IF res # 0 THEN h ELSE [h EXCEPT !.halted = TRUE, !.wedged = TRUE]

ops_fifo_status(h, res) == IF res # 0 THEN res ELSE h.fifo

ops_fifo_flush(h) == [h EXCEPT !.fifo = 0]

ops_restart(h, res) ==
    IF res # 0 THEN h
    ELSE [h EXCEPT !.halted = FALSE, !.wedged = FALSE, !.fifo = 0]

\* --- wrappers -----------------------------------------------------------
\* mutant: reports success whatever the controller answers
usb_ep_set_halt_reports_success(h, present, res) ==
    LET c == ops_set_halt(h, 1, res)
    IN OOutcome(c.h, 0, <<OpCall("set_halt", 1, c.ret)>>)

usb_ep_set_halt(h, present, res) ==
    LET c == ops_set_halt(h, 1, res)
    IN OOutcome(c.h, c.ret, <<OpCall("set_halt", 1, c.ret)>>)

\* mutant: reports success without asking the controller
usb_ep_clear_halt_no_call(h, present, res) == OOutcome(h, 0, <<>>)

usb_ep_clear_halt(h, present, res) ==
    LET c == ops_set_halt(h, 0, res)
    IN OOutcome(c.h, c.ret, <<OpCall("set_halt", 0, c.ret)>>)

\* mutant: no fallback to set_halt when the entry is absent
usb_ep_set_wedge_no_fallback(h, present, res) ==
    IF "set_wedge" \in present
    THEN OOutcome(ops_set_wedge(h, res), res, <<OpCall("set_wedge", 0, res)>>)
    ELSE OOutcome(h, -EOPNOTSUPP, <<>>)

usb_ep_set_wedge(h, present, res) ==
    IF "set_wedge" \in present
    THEN OOutcome(ops_set_wedge(h, res), res, <<OpCall("set_wedge", 0, res)>>)
    ELSE LET c == ops_set_halt(h, 1, res)
         IN OOutcome(c.h, c.ret, <<OpCall("set_halt", 1, c.ret)>>)

\* mutant: the entry is called without looking at it
usb_ep_fifo_status_no_presence_test(h, present, res) ==
    OOutcome(h, ops_fifo_status(h, res), <<OpCall("fifo_status", 0, res)>>)

usb_ep_fifo_status(h, present, res) ==
    IF "fifo_status" \in present
    THEN OOutcome(h, ops_fifo_status(h, res), <<OpCall("fifo_status", 0, res)>>)
    ELSE OOutcome(h, -EOPNOTSUPP, <<>>)

usb_ep_fifo_flush(h, present, res) ==
    IF "fifo_flush" \in present
    THEN OOutcome(ops_fifo_flush(h), 0, <<OpCall("fifo_flush", 0, 0)>>)
    ELSE OOutcome(h, 0, <<>>)

usb_gadget_wakeup(h, present, res) ==
    IF "wakeup" \notin present THEN OOutcome(h, -EOPNOTSUPP, <<>>)
    ELSE OOutcome(h, res, <<OpCall("wakeup", 0, res)>>)

\* mutant: the speed of the connection is not looked at
usb_gadget_func_wakeup_no_speed_test(h, present, spd, interface_id, res) ==
    IF "func_wakeup" \notin present THEN OOutcome(h, -EOPNOTSUPP, <<>>)
    ELSE OOutcome(h, res, <<OpCall("func_wakeup", interface_id, res)>>)

usb_gadget_func_wakeup(h, present, spd, interface_id, res) ==
    IF spd # USB_SPEED_SUPER THEN OOutcome(h, -EOPNOTSUPP, <<>>)
    ELSE IF "func_wakeup" \notin present THEN OOutcome(h, -EOPNOTSUPP, <<>>)
    ELSE OOutcome(h, res, <<OpCall("func_wakeup", interface_id, res)>>)

usb_gadget_restart(h, present, res) ==
    IF "restart" \notin present THEN OOutcome(h, -EOPNOTSUPP, <<>>)
    ELSE OOutcome(ops_restart(h, res), res, <<OpCall("restart", 0, res)>>)

\* --- the state machine --------------------------------------------------
OApply(op, o) ==
    /\ halted' = o.h.halted
    /\ wedged' = o.h.wedged
    /\ fifo' = o.h.fifo
    /\ o_last' = [op |-> op, ret |-> o.ret, invoked |-> o.invoked,
                  pre |-> HState, post |-> o.h]
    /\ UNCHANGED <<ops_present, speed, dir_in, gvars, evars, zvars, xvars,
                   cvars, tvars, avars>>

OInit ==
    /\ ops_present \in SUBSET OptionalOps
    /\ speed = "USB_SPEED_UNKNOWN"
    /\ dir_in \in BOOLEAN
    /\ halted = FALSE
    /\ wedged = FALSE
    /\ fifo = 0
    /\ o_last = [op |-> "none", ret |-> 0, invoked |-> <<>>,
                 pre |-> [halted |-> FALSE, wedged |-> FALSE, fifo |-> 0,
                          dir_in |-> dir_in, queued |-> FALSE],
                 post |-> [halted |-> FALSE, wedged |-> FALSE, fifo |-> 0,
                           dir_in |-> dir_in, queued |-> FALSE]]

SetHalt == \E res \in OpResults :
    OApply("set_halt", usb_ep_set_halt(HState, ops_present, res))

ClearHalt == \E res \in OpResults :
    OApply("clear_halt", usb_ep_clear_halt(HState, ops_present, res))

SetWedge == \E res \in OpResults :
    OApply("set_wedge", usb_ep_set_wedge(HState, ops_present, res))

FifoStatus == \E res \in OpResults :
    OApply("fifo_status", usb_ep_fifo_status(HState, ops_present, res))

FifoFlush ==
    OApply("fifo_flush", usb_ep_fifo_flush(HState, ops_present, 0))

Wakeup == \E res \in OpResults :
    OApply("wakeup", usb_gadget_wakeup(HState, ops_present, res))

FuncWakeup == \E res \in OpResults :
    OApply("func_wakeup",
           usb_gadget_func_wakeup(HState, ops_present, speed, 0, res))

Restart == \E res \in OpResults :
    OApply("restart", usb_gadget_restart(HState, ops_present, res))

\* The bus leaves bytes unclaimed in the FIFO (an aborted transfer).
FifoResidue ==
    /\ fifo < FifoCap
    /\ fifo' = fifo + 1
    /\ UNCHANGED <<ops_present, speed, halted, wedged, o_last, dir_in, gvars,
                   evars, zvars, xvars, cvars, tvars, avars>>

\* Enumeration settles the speed of the link.
SpeedNegotiated ==
    /\ \E spd \in Speeds : spd # speed /\ speed' = spd
    /\ UNCHANGED <<ops_present, halted, wedged, fifo, o_last, dir_in, gvars,
                   evars, zvars, xvars, cvars, tvars, avars>>

\* The host sends CLEAR_FEATURE(ENDPOINT_HALT): the controller clears the
\* halt of an endpoint that is not wedged and ignores the request on one that
\* is; the gadget driver does not see it.
HostClearHalt ==
    /\ halted
    /\ halted' = wedged
    /\ o_last' = [op |-> "host_clear_halt", ret |-> 0, invoked |-> <<>>,
                  pre |-> HState, post |-> [HState EXCEPT !.halted = wedged]]
    /\ UNCHANGED <<ops_present, speed, wedged, fifo, dir_in, gvars, evars,
                   zvars, xvars, cvars, tvars, avars>>

\* The halt feature of an endpoint that carries transfers: the halt and
\* wedge calls, the host's clear request, the FIFO, and the calls that fill
\* and empty the endpoint's queue.
HaltNext ==
    \/ SetHalt
    \/ ClearHalt
    \/ SetWedge
    \/ HostClearHalt
    \/ FifoFlush
    \/ FifoResidue
    \/ SetDesc
    \/ Enable
    \/ BusConnect
    \/ Queue
    \/ Dequeue

ONext ==
    \/ SetHalt
    \/ ClearHalt
    \/ SetWedge
    \/ FifoStatus
    \/ FifoFlush
    \/ Wakeup
    \/ FuncWakeup
    \/ Restart
    \/ FifoResidue
    \/ SpeedNegotiated

(***************************************************************************)
(* The offload channel of a GSI endpoint.                                  *)
(*   has_gsi_ep_op : ep->ops->gsi_ep_op != NULL                            *)
(*   ep_type       : the endpoint's type tag                               *)
(*   gsi_phase     : where the controller has the channel in its life      *)
(*   gsi_carried   : the ordered operations carried out on the channel     *)
(*                   since it was last disabled                            *)
(*   x_last        : the last usb_gsi_ep_op call: its operation code,      *)
(*                   return value, the table entries invoked, whether the  *)
(*                   controller carried it out, and the channel before and *)
(*                   after                                                 *)
(***************************************************************************)
EpTypes == {"EP_TYPE_NORMAL", "EP_TYPE_GSI"}

\* enum gsi_ep_op
GsiEpOps == {"GSI_EP_OP_CONFIG", "GSI_EP_OP_STARTXFER",
             "GSI_EP_OP_STORE_DBL_INFO", "GSI_EP_OP_ENABLE_GSI",
             "GSI_EP_OP_UPDATEXFER", "GSI_EP_OP_RING_IN_DB",
             "GSI_EP_OP_ENDXFER", "GSI_EP_OP_GET_CH_INFO",
             "GSI_EP_OP_GET_XFER_IDX", "GSI_EP_OP_PREPARE_TRBS",
             "GSI_EP_OP_FREE_TRBS", "GSI_EP_OP_SET_CLR_BLOCK_DBL",
             "GSI_EP_OP_CHECK_FOR_SUSPEND", "GSI_EP_OP_DISABLE"}

\* The operations whose order the channel keeps.
GsiOrderedOps == {"GSI_EP_OP_CONFIG", "GSI_EP_OP_STARTXFER",
                  "GSI_EP_OP_UPDATEXFER", "GSI_EP_OP_RING_IN_DB",
                  "GSI_EP_OP_ENDXFER", "GSI_EP_OP_FREE_TRBS",
                  "GSI_EP_OP_DISABLE"}

\* The channel as the wrapper and the controller see it.
XState == [phase |-> gsi_phase, carried |-> gsi_carried]

XOutcome(x, ret, invoked, done) ==
    [x |-> x, ret |-> ret, invoked |-> invoked, done |-> done]

\* Whether the controller takes operation op with the channel in phase ph.
GsiInOrder(ph, op) ==
    CASE op = "GSI_EP_OP_CONFIG" -> ph = "idle"
      [] op = "GSI_EP_OP_PREPARE_TRBS" -> ph = "configured"
      [] op = "GSI_EP_OP_STARTXFER" -> ph = "configured"
      [] op = "GSI_EP_OP_UPDATEXFER" -> ph = "started"
      [] op = "GSI_EP_OP_RING_IN_DB" -> ph = "started"
      [] op = "GSI_EP_OP_ENDXFER" -> ph = "started"
      [] op = "GSI_EP_OP_FREE_TRBS" -> ph = "ended"
      [] op = "GSI_EP_OP_DISABLE" -> ph = "freed"
      [] OTHER -> TRUE

\* The phase the channel is in once op has been carried out.
GsiPhaseAfter(ph, op) ==
    CASE op = "GSI_EP_OP_CONFIG" -> "configured"
      [] op = "GSI_EP_OP_STARTXFER" -> "started"
      [] op = "GSI_EP_OP_ENDXFER" -> "ended"
      [] op = "GSI_EP_OP_FREE_TRBS" -> "freed"
      [] op = "GSI_EP_OP_DISABLE" -> "idle"
      [] OTHER -> ph

GsiCarriedAfter(c, op) ==
    IF op = "GSI_EP_OP_DISABLE" THEN {}
    ELSE IF op \in GsiOrderedOps THEN c \cup {op}
    ELSE c

\* mutant: the controller carries out whatever it is handed
ops_gsi_ep_op_any_order(x, op, res) ==
    IF res # 0 THEN XOutcome(x, res, <<op>>, FALSE)
    ELSE XOutcome([phase |-> GsiPhaseAfter(x.phase, op),
                   carried |-> GsiCarriedAfter(x.carried, op)],
                  0, <<op>>, TRUE)

\* ep->ops->gsi_ep_op with outcome res: an operation handed over out of
\* order is refused, one in order is carried out unless the controller
\* fails it.
ops_gsi_ep_op(x, op, res) ==
    IF ~GsiInOrder(x.phase, op) THEN XOutcome(x, -EINVAL, <<op>>, FALSE)
    ELSE IF res # 0 THEN XOutcome(x, res, <<op>>, FALSE)
    ELSE XOutcome([phase |-> GsiPhaseAfter(x.phase, op),
                   carried |-> GsiCarriedAfter(x.carried, op)],
                  0, <<op>>, TRUE)

\* mutant: the entry is called without looking at it
usb_gsi_ep_op_no_presence_test(x, has, op, res) == ops_gsi_ep_op(x, op, res)

usb_gsi_ep_op(x, has, op, res) ==
    IF has THEN ops_gsi_ep_op(x, op, res)
    ELSE XOutcome(x, -EOPNOTSUPP, <<>>, FALSE)

XInit ==
    /\ has_gsi_ep_op \in BOOLEAN
    /\ ep_type \in EpTypes
    /\ gsi_phase = "idle"
    /\ gsi_carried = {}
    /\ x_last = [op |-> "none", ret |-> 0, invoked |-> <<>>, done |-> FALSE,
                 pre |-> [phase |-> "idle", carried |-> {}],
                 post |-> [phase |-> "idle", carried |-> {}]]

\* One usb_gsi_ep_op call.
GsiEpOp == \E op \in GsiEpOps, res \in OpResults :
    LET o == usb_gsi_ep_op(XState, has_gsi_ep_op, op, res) IN
    /\ gsi_phase' = o.x.phase
    /\ gsi_carried' = o.x.carried
    /\ x_last' = [op |-> op, ret |-> o.ret, invoked |-> o.invoked,
                  done |-> o.done, pre |-> XState, post |-> o.x]
    /\ UNCHANGED <<has_gsi_ep_op, ep_type, gvars, evars, ovars, zvars, cvars,
                   tvars, avars>>

\* The function driver retags the endpoint while its channel is idle.
SetEpType == \E ty \in EpTypes :
    /\ gsi_phase = "idle"
    /\ ty # ep_type
    /\ ep_type' = ty
    /\ UNCHANGED <<has_gsi_ep_op, gsi_phase, gsi_carried, x_last,
                   gvars, evars, ovars, zvars, cvars, tvars, avars>>

XNext ==
    \/ GsiEpOp
    \/ SetEpType

(***************************************************************************)
(* Two calls on the same object running at once, statement by statement,   *)
(* with no lock: two of usb_ep_enable / usb_ep_disable on the endpoint, or *)
(* two of usb_gadget_connect / disconnect / deactivate / activate on the   *)
(* gadget.                                                                 *)
(*   obj       : which object the two calls are made on                    *)
(*   th        : per thread, the call it makes, the statement it is at,    *)
(*               the bit-field write it is in the middle of (field, value, *)
(*               the word it loaded, where to go on) and its return value  *)
(*   start     : the flags and the hardware when the calls began           *)
(*   n_enable, n_disable : invocations of the controller's enable and      *)
(*               disable operations since the calls began                  *)
(* connected and deactivated are bit-fields of one word of struct          *)
(* usb_gadget: a write to one loads the word and stores it back.           *)
(***************************************************************************)
Threads == {1, 2}

EpCalls == {"enable", "disable"}

GadgetCalls == {"connect", "disconnect", "deactivate", "activate"}

\* The first statement of each call.
Entry(call) ==
    CASE call = "enable" -> "e_desc"
      [] call = "disable" -> "s_rd"
      [] call = "connect" -> "c_chk"
      [] call = "disconnect" -> "x_chk"
      [] call = "deactivate" -> "d_rd0"
      [] call = "activate" -> "a_rd"

Thread(call) == [call |-> call, pc |-> Entry(call), field |-> "none",
                 val |-> FALSE, w |-> FALSE, next |-> "none", ret |-> 0]

\* The thread returns ret.
Return(t, ret) == th' = [th EXCEPT ![t].pc = "done", ![t].ret = ret]

\* The thread goes on to write val to a bit-field, then to statement next.
Write(t, field, val, next, ret) ==
    th' = [th EXCEPT ![t].pc = "ld", ![t].field = field, ![t].val = val,
                     ![t].next = next, ![t].ret = ret]

\* The end of usb_gadget_connect / usb_gadget_disconnect with value ret:
\* back in usb_gadget_deactivate when it made the call, else to the caller.
AfterPullupCall(t, ret) ==
    IF th[t].call = "deactivate" /\ ret = 0 THEN "d_set" ELSE "done"

RaceIdleE == UNCHANGED <<maxpacket_limit, queue, hw_done, accepted, ncompl,
                         e_last, link, hw_started, cb, overtaken>>

RaceIdleG == UNCHANGED <<has_pullup, g_last, g_prev, g_prev2, state,
                         pullup_ok>>

RaceIdle == UNCHANGED <<obj, start, ovars, zvars, xvars, tvars, avars>>

\* --- usb_ep_enable, usb_ep_disable ---------------------------------------
\* A descriptor with a packet size, for the caller of usb_ep_enable.
RaceDesc == CHOOSE d \in DOMAIN Descriptors : usb_endpoint_maxp(d) # 0

\* the caller of usb_ep_enable sets ep->desc first
EpSetDesc(t) ==
    /\ th[t].pc = "e_desc"
    /\ desc' = RaceDesc
    /\ th' = [th EXCEPT ![t].pc = "e_rd"]
    /\ UNCHANGED <<maxpacket, enabled, hw_enabled, n_enable, n_disable, gvars,
                   tvars, avars>>
    /\ RaceIdleE /\ RaceIdle

\* if (ep->enabled) return 0;  /  if (!ep->enabled) return 0;
EpReadFlag(t) ==
    /\ th[t].pc \in {"e_rd", "s_rd"}
    /\ IF th[t].pc = "e_rd"
       THEN IF enabled THEN Return(t, 0)
            ELSE th' = [th EXCEPT ![t].pc = "e_maxp"]
       ELSE IF ~enabled THEN Return(t, 0)
            ELSE th' = [th EXCEPT ![t].pc = "s_op"]
    /\ UNCHANGED <<maxpacket, enabled, desc, hw_enabled, n_enable, n_disable, gvars,
                   tvars, avars>>
    /\ RaceIdleE /\ RaceIdle

\* if (usb_endpoint_maxp(ep->desc) == 0) return -EINVAL;  the read of a
\* descriptor pointer that is NULL faults and the call never returns
EpReadMaxp(t) ==
    /\ th[t].pc = "e_maxp"
    /\ IF desc = NULL THEN th' = [th EXCEPT ![t].pc = "oops"]
       ELSE IF usb_endpoint_maxp(desc) = 0 THEN Return(t, -EINVAL)
       ELSE th' = [th EXCEPT ![t].pc = "e_op"]
    /\ UNCHANGED <<maxpacket, enabled, desc, hw_enabled, n_enable, n_disable, gvars,
                   tvars, avars>>
    /\ RaceIdleE /\ RaceIdle

\* ret = ep->ops->enable(ep, ep->desc);  /  ret = ep->ops->disable(ep);
EpInvokeOp(t) == \E res \in OpResults :
    /\ th[t].pc \in {"e_op", "s_op"}
    /\ LET o == IF th[t].pc = "e_op" THEN ops_enable(EState, res)
                ELSE ops_disable(EState, res)
       IN /\ hw_enabled' = o.e.hw_enabled
          /\ desc' = o.e.desc
          /\ maxpacket' = o.e.maxpacket
          /\ n_enable' = n_enable + (IF th[t].pc = "e_op" THEN 1 ELSE 0)
          /\ n_disable' = n_disable + (IF th[t].pc = "s_op" THEN 1 ELSE 0)
          /\ IF o.ret # 0 THEN Return(t, o.ret)
             ELSE th' = [th EXCEPT ![t].pc =
                                      IF @ = "e_op" THEN "e_wr" ELSE "s_wr"]
    /\ UNCHANGED <<enabled, gvars, tvars, avars>>
    /\ RaceIdleE /\ RaceIdle

\* ep->enabled = true;  /  ep->enabled = false;
EpWriteFlag(t) ==
    /\ th[t].pc \in {"e_wr", "s_wr"}
    /\ enabled' = (th[t].pc = "e_wr")
    /\ Return(t, 0)
    /\ UNCHANGED <<maxpacket, desc, hw_enabled, n_enable, n_disable, gvars,
                   tvars, avars>>
    /\ RaceIdleE /\ RaceIdle

\* --- usb_gadget_connect, usb_gadget_disconnect ---------------------------
\* if (!gadget->ops->pullup) return -EOPNOTSUPP;
\* if (gadget->deactivated) { gadget->connected = ...; return 0; }
PullupCheck(t) ==
    /\ th[t].pc \in {"c_chk", "x_chk"}
    /\ IF ~has_pullup THEN Return(t, -EOPNOTSUPP)
       ELSE IF deactivated
       THEN Write(t, "connected", th[t].pc = "c_chk", "done", 0)
       ELSE th' = [th EXCEPT ![t].pc = IF @ = "c_chk" THEN "c_op" ELSE "x_op"]
    /\ UNCHANGED <<connected, deactivated, pullup_on, n_enable, n_disable,
                   evars, tvars, avars>>
    /\ RaceIdleG /\ RaceIdle

\* ret = gadget->ops->pullup(gadget, is_on); if (!ret) gadget->connected = is_on;
PullupInvoke(t) == \E res \in OpResults :
    /\ th[t].pc \in {"c_op", "x_op"}
    /\ pullup_on' = ops_pullup(pullup_on, th[t].pc = "c_op", res)
    /\ IF res = 0
       THEN Write(t, "connected", th[t].pc = "c_op", AfterPullupCall(t, 0), 0)
       ELSE Return(t, res)
    /\ UNCHANGED <<connected, deactivated, n_enable, n_disable, evars, tvars,
                   avars>>
    /\ RaceIdleG /\ RaceIdle

\* --- usb_gadget_deactivate -----------------------------------------------
\* if (gadget->deactivated) return 0;
DeactivateReadFlag(t) ==
    /\ th[t].pc = "d_rd0"
    /\ IF deactivated THEN Return(t, 0)
       ELSE th' = [th EXCEPT ![t].pc = "d_rd1"]
    /\ UNCHANGED <<connected, deactivated, pullup_on, n_enable, n_disable,
                   evars, tvars, avars>>
    /\ RaceIdleG /\ RaceIdle

\* if (gadget->connected) { ret = usb_gadget_disconnect(gadget); ... }
DeactivateReadConnected(t) ==
    /\ th[t].pc = "d_rd1"
    /\ IF connected THEN th' = [th EXCEPT ![t].pc = "x_chk"]
       ELSE Write(t, "deactivated", TRUE, "done", 0)
    /\ UNCHANGED <<connected, deactivated, pullup_on, n_enable, n_disable,
                   evars, tvars, avars>>
    /\ RaceIdleG /\ RaceIdle

\* gadget->connected = true;  then  gadget->deactivated = true;
DeactivateKeepIntent(t) ==
    /\ th[t].pc \in {"d_set", "d_off"}
    /\ IF th[t].pc = "d_set" THEN Write(t, "connected", TRUE, "d_off", 0)
       ELSE Write(t, "deactivated", TRUE, "done", 0)
    /\ UNCHANGED <<connected, deactivated, pullup_on, n_enable, n_disable,
                   evars, tvars, avars>>
    /\ RaceIdleG /\ RaceIdle

\* --- usb_gadget_activate -------------------------------------------------
\* if (!gadget->deactivated) return 0;  gadget->deactivated = false;
ActivateReadFlag(t) ==
    /\ th[t].pc = "a_rd"
    /\ IF ~deactivated THEN Return(t, 0)
       ELSE Write(t, "deactivated", FALSE, "a_rd2", 0)
    /\ UNCHANGED <<connected, deactivated, pullup_on, n_enable, n_disable,
                   evars, tvars, avars>>
    /\ RaceIdleG /\ RaceIdle

\* if (gadget->connected) return usb_gadget_connect(gadget);  return 0;
ActivateReadConnected(t) ==
    /\ th[t].pc = "a_rd2"
    /\ IF connected THEN th' = [th EXCEPT ![t].pc = "c_chk"]
       ELSE Return(t, 0)
    /\ UNCHANGED <<connected, deactivated, pullup_on, n_enable, n_disable,
                   evars, tvars, avars>>
    /\ RaceIdleG /\ RaceIdle

\* --- a write to a bit-field ----------------------------------------------
\* the word holding both bit-fields is loaded
BitfieldLoad(t) ==
    /\ th[t].pc = "ld"
    /\ th' = [th EXCEPT ![t].pc = "st",
                        ![t].w = IF th[t].field = "connected" THEN deactivated
                                 ELSE connected]
    /\ UNCHANGED <<connected, deactivated, pullup_on, n_enable, n_disable,
                   evars, tvars, avars>>
    /\ RaceIdleG /\ RaceIdle

\* and stored back with the one bit changed
BitfieldStore(t) ==
    /\ th[t].pc = "st"
    /\ IF th[t].field = "connected"
       THEN connected' = th[t].val /\ deactivated' = th[t].w
       ELSE deactivated' = th[t].val /\ connected' = th[t].w
    /\ th' = [th EXCEPT ![t].pc = th[t].next]
    /\ UNCHANGED <<pullup_on, n_enable, n_disable, evars, tvars, avars>>
    /\ RaceIdleG /\ RaceIdle

\* The states two calls may begin in: each is one the calls made one after
\* the other reach from construction (connect; connect then deactivate;
\* deactivate; connect, deactivate, then an activate whose pullup call
\* fails; enable).
RaceGadgetStarts ==
    { s \in [connected : BOOLEAN, deactivated : BOOLEAN, pullup : BOOLEAN] :
        s.pullup => (s.connected /\ ~s.deactivated) }

RaceInit ==
    /\ obj \in {"ep", "gadget"}
    /\ has_pullup \in BOOLEAN
    /\ \E s \in RaceGadgetStarts :
         /\ obj = "ep" => s = [connected |-> FALSE, deactivated |-> FALSE,
                               pullup |-> FALSE]
         /\ ~has_pullup => ~s.connected
         /\ connected = s.connected
         /\ deactivated = s.deactivated
         /\ pullup_on = s.pullup
    /\ g_last = NoGCall /\ g_prev = NoGCall /\ g_prev2 = NoGCall
    /\ state = DeviceStates[1]
    /\ pullup_ok = TRUE
    /\ \E on \in BOOLEAN :
         LET c == usb_ep_set_maxpacket_limit(
                      [enabled |-> FALSE, desc |-> NULL, maxpacket |-> 0,
                       maxpacket_limit |-> 0, hw_enabled |-> FALSE,
                       queue |-> <<>>, hw_done |-> NoReq,
                       hw_started |-> NoReq, link |-> FALSE], 64)
             e == [c EXCEPT !.enabled = on, !.hw_enabled = on,
                            !.desc = IF on THEN RaceDesc ELSE NULL]
         IN /\ obj = "gadget" => ~on
            /\ enabled = e.enabled
            /\ desc = e.desc
            /\ maxpacket = e.maxpacket
            /\ maxpacket_limit = e.maxpacket_limit
            /\ hw_enabled = e.hw_enabled
            /\ queue = e.queue
            /\ hw_done = e.hw_done
            /\ hw_started = e.hw_started
            /\ link = e.link
            /\ e_last = NoECall(c)
            /\ start = [e |-> e, g |-> GState]
    /\ cb = NoCb
    /\ overtaken = {}
    /\ accepted = [r \in Reqs |-> FALSE]
    /\ ncompl = [r \in Reqs |-> 0]
    /\ n_enable = 0
    /\ n_disable = 0
    /\ \E c1, c2 \in IF obj = "ep" THEN EpCalls ELSE GadgetCalls :
         th = [t \in Threads |-> Thread(IF t = 1 THEN c1 ELSE c2)]

RaceNext == \E t \in Threads :
    \/ EpSetDesc(t)
    \/ EpReadFlag(t)
    \/ EpReadMaxp(t)
    \/ EpInvokeOp(t)
    \/ EpWriteFlag(t)
    \/ PullupCheck(t)
    \/ PullupInvoke(t)
    \/ DeactivateReadFlag(t)
    \/ DeactivateReadConnected(t)
    \/ DeactivateKeepIntent(t)
    \/ ActivateReadFlag(t)
    \/ ActivateReadConnected(t)
    \/ BitfieldLoad(t)
    \/ BitfieldStore(t)

\* No call is running: the state of the other specifications.
CInit ==
    /\ obj = "none"
    /\ th = [t \in Threads |-> Thread("enable")]
    /\ start = [e |-> EState, g |-> GState]
    /\ n_enable = 0
    /\ n_disable = 0

(***************************************************************************)
(* The transfers of one endpoint's queue on the wire, packet by packet, as *)
(* the controller carries them out (struct usb_request: @length, @zero,    *)
(* @short_not_ok, @complete, @status, @actual).                            *)
(*   t_dir   : the endpoint's direction, "in" (writes) or "out" (reads)    *)
(*   t_maxp  : the endpoint's maximum packet size                          *)
(*   t_reqs  : the requests queued, in order, each with its length and its *)
(*             zero and short_not_ok flags                                 *)
(*   t_head  : the request the hardware is working on                     *)
(*   t_moved : the bytes of it moved so far                                *)
(*   t_ended : whether its last packet has been on the wire                *)
(*   wire    : the packets seen on the wire, each with its request         *)
(*   t_compl : the completions given back, with status and actual         *)
(*   t_cb    : the completion callback that is running                     *)
(***************************************************************************)
\* The data-underrun status of a short read that is not allowed.
EREMOTEIO == 121

PacketSizes == {32, 64}

ReqLengths == {0, 64, 100, 128}

\* The sizes of the short packets a host sends.
ShortPackets == {0, 4}

Min(a, b) == IF a < b THEN a ELSE b

\* The next packet of a write of request rq, moved bytes of it written.
InPacket(rq, moved, maxp) == Min(rq.length - moved, maxp)

\* --- mutant of InEnds ----------------------------------------------------
\* the zero flag is ignored
InEnds_ignores_zero(rq, moved, size, maxp) ==
    size < maxp \/ moved = rq.length

\* A write ends with a short packet, or with a full one that carries the
\* last byte when the zero flag does not ask for a short packet after it.
InEnds(rq, moved, size, maxp) ==
    size < maxp \/ (moved = rq.length /\ ~rq.zero)

\* A read ends with a short packet or when the buffer is full.
OutEnds(rq, moved, size, maxp) == size < maxp \/ moved = rq.length

\* --- mutant of OutStatus -------------------------------------------------
\* a short read is a success whatever short_not_ok says
OutStatus_short_is_ok(rq, moved, size, maxp) == 0

\* The status of a read that ended: a short packet that leaves the buffer
\* unfilled is an error when short_not_ok is set.
OutStatus(rq, moved, size, maxp) ==
    IF size < maxp /\ moved < rq.length /\ rq.short_not_ok THEN -EREMOTEIO
    ELSE 0

\* The status the request on the wire ends with.
EndStatus ==
    IF t_dir = "in" THEN 0
    ELSE LET p == wire[Len(wire)]
         IN OutStatus(t_reqs[t_head], t_moved, p.size, t_maxp)

\* The hardware moves packets of the head request unless the request has
\* ended or the callback of a failed request is still running.
HwMayMove ==
    t_head <= Len(t_reqs) /\ ~t_ended /\ ~ErrorCallbackRunning(t_cb)

Moved(size, ends) ==
    /\ wire' = Append(wire, [req |-> t_head, size |-> size])
    /\ t_moved' = t_moved + size
    /\ t_ended' = ends
    /\ UNCHANGED <<t_dir, t_maxp, t_reqs, t_head, t_compl, t_cb, gvars, evars,
                   ovars, zvars, xvars, cvars, avars>>

\* The controller writes the next packet of the head request.
SendPacket ==
    /\ t_dir = "in" /\ HwMayMove
    /\ LET rq == t_reqs[t_head]
           size == InPacket(rq, t_moved, t_maxp)
       IN Moved(size, InEnds(rq, t_moved + size, size, t_maxp))

\* The host writes a packet and the controller stores it in the buffer of
\* the head request; the host sends no more than the buffer has room for.
ReceivePacket ==
    /\ t_dir = "out" /\ HwMayMove
    /\ LET rq == t_reqs[t_head]
       IN \E size \in ShortPackets \cup {t_maxp} :
            /\ size <= t_maxp
            /\ t_moved + size <= rq.length
            /\ Moved(size, OutEnds(rq, t_moved + size, size, t_maxp))

\* The request that ended is given back: its completion callback starts and
\* the next request becomes the head of the queue.
XferGiveback ==
    /\ t_head <= Len(t_reqs) /\ t_ended /\ t_cb = NoCb
    /\ t_compl' = Append(t_compl, [req |-> t_head, status |-> EndStatus,
                                   actual |-> t_moved])
    /\ t_cb' = Completion(t_head, EndStatus)
    /\ t_head' = t_head + 1
    /\ t_moved' = 0
    /\ t_ended' = FALSE
    /\ UNCHANGED <<t_dir, t_maxp, t_reqs, wire, gvars, evars, ovars, zvars,
                   xvars, cvars, avars>>

\* The completion callback returns.
XferCallbackReturn ==
    /\ t_cb # NoCb
    /\ t_cb' = NoCb
    /\ UNCHANGED <<t_dir, t_maxp, t_reqs, t_head, t_moved, t_ended, wire,
                   t_compl, gvars, evars, ovars, zvars, xvars, cvars, avars>>

XferNext ==
    \/ SendPacket
    \/ ReceivePacket
    \/ XferGiveback
    \/ XferCallbackReturn

\* The requests a gadget driver queues: the zero flag matters to writes,
\* short_not_ok to reads.
XferRequests(dir) ==
    { rq \in [length : ReqLengths, zero : BOOLEAN, short_not_ok : BOOLEAN] :
        IF dir = "in" THEN ~rq.short_not_ok ELSE ~rq.zero }

\* NumReqs requests queued on an endpoint of either direction.
XferInit ==
    /\ t_dir \in {"in", "out"}
    /\ t_maxp \in PacketSizes
    /\ t_reqs \in [1..NumReqs -> XferRequests(t_dir)]
    /\ t_head = 1
    /\ t_moved = 0
    /\ t_ended = FALSE
    /\ wire = <<>>
    /\ t_compl = <<>>
    /\ t_cb = NoCb

\* Nothing queued: the state of the other specifications.
TInit ==
    /\ t_dir = "in"
    /\ t_maxp = 64
    /\ t_reqs = <<>>
    /\ t_head = 1
    /\ t_moved = 0
    /\ t_ended = FALSE
    /\ wire = <<>>
    /\ t_compl = <<>>
    /\ t_cb = NoCb

(***************************************************************************)
(* Buffer alignment: usb_ep_align and usb_ep_align_maybe.                  *)
(*   a_maxp  : what usb_endpoint_maxp(ep->desc) returns, the descriptor's  *)
(*             wMaxPacketSize with its high-bandwidth bits 11 and 12       *)
(*   a_len   : the length to align                                         *)
(*   a_quirk : gadget->quirk_ep_out_aligned_size                           *)
(*   a_ret   : the last call made and the value it returned                *)
(***************************************************************************)
\* Width of size_t in the model.  The arithmetic of round_up wraps at this
\* width (0 - 1 is the all-ones value and its increment is 0); the lengths
\* drawn stay far below it, where every wider size_t computes the same.
SizeBits == 30

SizeMod == 2 ^ SizeBits

\* Bitwise AND and OR of two naturals, bit by bit.
RECURSIVE BitAnd(_, _)
BitAnd(a, b) ==
    IF a = 0 \/ b = 0 THEN 0
    ELSE (IF a % 2 = 1 /\ b % 2 = 1 THEN 1 ELSE 0)
         + 2 * BitAnd(a \div 2, b \div 2)

RECURSIVE BitOr(_, _)
BitOr(a, b) ==
    IF a = 0 THEN b
    ELSE IF b = 0 THEN a
    ELSE (IF a % 2 = 1 \/ b % 2 = 1 THEN 1 ELSE 0)
         + 2 * BitOr(a \div 2, b \div 2)

\* round_up(x, y) of include/linux/kernel.h, for x of type size_t:
\*   #define __round_mask(x, y) ((__typeof__(x))((y)-1))
\*   #define round_up(x, y) ((((x)-1) | __round_mask(x, y))+1)
round_up(x, y) ==
    (BitOr((x - 1) % SizeMod, (y - 1) % SizeMod) + 1) % SizeMod

\* usb_ep_align(ep, len), maxp being usb_endpoint_maxp(ep->desc)
usb_ep_align(maxp, len) ==
    LET max_packet_size == BitAnd(maxp, 2047)
    IN round_up(len, max_packet_size)

usb_ep_align_maybe(quirk, maxp, len) ==
    IF quirk THEN usb_ep_align(maxp, len) ELSE len

\* Values of wMaxPacketSize: powers of two, sizes that are not (legal on
\* interrupt and isochronous endpoints), and high-bandwidth isochronous
\* sizes, which carry a transaction count in bits 11 and 12.
WMaxPacketSizes == {1, 3, 8, 10, 64, 200, 512, 1023, 1024, 2048 + 1024,
                    4096 + 1000}

\* Buffer lengths.
AlignLengths == (0..24) \cup {63, 64, 65, 511, 512, 513, 1000, 1023, 1024,
                               1025, 2046, 2047, 3000}

NoAlignCall == [fn |-> "none", ret |-> 0]

\* The values the other components are checked with.
AInit ==
    /\ a_maxp = 512
    /\ a_len = 0
    /\ a_quirk = FALSE
    /\ a_ret = NoAlignCall

AlignInit ==
    /\ a_maxp \in WMaxPacketSizes
    /\ a_len \in AlignLengths
    /\ a_quirk \in BOOLEAN
    /\ a_ret = NoAlignCall

AlignIdle == UNCHANGED <<a_maxp, a_len, a_quirk, gvars, evars, ovars, zvars,
                         xvars, cvars, tvars>>

Align ==
    /\ a_ret' = [fn |-> "usb_ep_align", ret |-> usb_ep_align(a_maxp, a_len)]
    /\ AlignIdle

AlignMaybe ==
    /\ a_ret' = [fn |-> "usb_ep_align_maybe",
                 ret |-> usb_ep_align_maybe(a_quirk, a_maxp, a_len)]
    /\ AlignIdle

AlignNext == Align \/ AlignMaybe

(***************************************************************************)
(* Properties of the gadget connection state machine.                      *)
(***************************************************************************)

LastIs(op) == g_last.op = op

\* C1: after any sequence of connect, disconnect, deactivate and activate
\* calls, with the pullup operation succeeding or failing, the pullup is
\* asserted only if deactivated is false and connected is true.
C1_PullupOnlyWhenActiveAndConnected ==
    pullup_on => (~deactivated /\ connected)

\* C1 witness: the pullup is asserted after a call whose pullup operation
\* failed (a failed disconnect or deactivate of a connected gadget).
C1_Witness ==
    /\ pullup_on
    /\ g_last.ret # 0
    /\ g_last.calls # <<>>

IntentOnly(want) ==
    /\ g_last.ret = 0
    /\ connected = want
    /\ g_last.calls = <<>>
    /\ pullup_on = g_last.pre.pullup
    /\ deactivated

\* C8 as stated: while deactivated, connect and disconnect return success,
\* record the intent and do not invoke the pullup operation.
C8_Original ==
    /\ (LastIs("connect") /\ g_last.pre.deactivated) => IntentOnly(TRUE)
    /\ (LastIs("disconnect") /\ g_last.pre.deactivated) => IntentOnly(FALSE)

\* C8 amended: while deactivated and the controller supplies a pullup
\* operation, connect and disconnect return success, record the intent, do
\* not invoke the pullup operation and leave deactivated unchanged; without a
\* pullup operation they return -EOPNOTSUPP and change nothing.
C8_IntentOnlyWhileDeactivated ==
    /\ (LastIs("connect") /\ g_last.pre.deactivated /\ has_pullup)
           => IntentOnly(TRUE)
    /\ (LastIs("disconnect") /\ g_last.pre.deactivated /\ has_pullup)
           => IntentOnly(FALSE)
    /\ ((LastIs("connect") \/ LastIs("disconnect"))
            /\ g_last.pre.deactivated /\ ~has_pullup)
           => /\ g_last.ret = -EOPNOTSUPP
              /\ g_last.calls = <<>>
              /\ GState = g_last.pre

\* C8 witness: connect on a deactivated gadget that was not connected has
\* recorded the intent.
C8_Witness ==
    /\ LastIs("connect")
    /\ g_last.pre.deactivated
    /\ ~g_last.pre.connected
    /\ has_pullup
    /\ connected

\* What connect (want = TRUE) or disconnect (want = FALSE) does on an active
\* gadget according to C9: one pullup(want) invocation, its result returned,
\* connected set to want exactly when it succeeded.
DrivesPullup(want) ==
    /\ Len(g_last.calls) = 1
    /\ g_last.calls[1].is_on = want
    /\ g_last.ret = g_last.calls[1].res
    /\ connected = IF g_last.ret = 0 THEN want ELSE g_last.pre.connected
    /\ ~deactivated

\* C9 as stated: while not deactivated, connect invokes pullup(on) and
\* disconnect invokes pullup(off), and connected follows the result.
C9_Original ==
    /\ (LastIs("connect") /\ ~g_last.pre.deactivated) => DrivesPullup(TRUE)
    /\ (LastIs("disconnect") /\ ~g_last.pre.deactivated) => DrivesPullup(FALSE)

\* C9 amended: while not deactivated and the controller supplies a pullup
\* operation, connect invokes pullup(on) and disconnect pullup(off) once,
\* connected is set to true (respectively false) if and only if the
\* operation reports success, otherwise connected keeps its value and the
\* operation's error is returned; without a pullup operation both return
\* -EOPNOTSUPP and change nothing.
C9_ConnectedFollowsPullupResult ==
    /\ (LastIs("connect") /\ ~g_last.pre.deactivated /\ has_pullup)
           => DrivesPullup(TRUE)
    /\ (LastIs("disconnect") /\ ~g_last.pre.deactivated /\ has_pullup)
           => DrivesPullup(FALSE)
    /\ ((LastIs("connect") \/ LastIs("disconnect"))
            /\ ~g_last.pre.deactivated /\ ~has_pullup)
           => /\ g_last.ret = -EOPNOTSUPP
              /\ g_last.calls = <<>>
              /\ GState = g_last.pre

\* C9 witness: connect on an active, unconnected gadget whose pullup
\* operation failed; connected stayed false.
C9_Witness ==
    /\ LastIs("connect")
    /\ ~g_last.pre.deactivated
    /\ ~g_last.pre.connected
    /\ has_pullup
    /\ g_last.ret # 0
    /\ ~connected

\* C10 as stated: deactivate on an active, connected gadget deasserts the
\* pullup and ends deactivated with connected still true; on an active,
\* unconnected gadget it sets deactivated without invoking the pullup.
C10_Original ==
    /\ (LastIs("deactivate") /\ ~g_last.pre.deactivated /\ g_last.pre.connected)
           => /\ Len(g_last.calls) = 1
              /\ g_last.calls[1].is_on = FALSE
              /\ ~pullup_on
              /\ deactivated
              /\ connected
    /\ (LastIs("deactivate") /\ ~g_last.pre.deactivated /\ ~g_last.pre.connected)
           => /\ deactivated
              /\ g_last.calls = <<>>

\* C10 amended: deactivate on an active, connected gadget invokes
\* pullup(off) once; if that succeeds the pullup is deasserted and the call
\* ends with deactivated=true and connected still true, and if it fails the
\* error is returned and connected, deactivated and the pullup are as before.
\* On an active, unconnected gadget it sets deactivated=true without invoking
\* the pullup operation.
C10_DeactivatePreservesIntent ==
    /\ (LastIs("deactivate") /\ ~g_last.pre.deactivated /\ g_last.pre.connected)
           => /\ Len(g_last.calls) = 1
              /\ g_last.calls[1].is_on = FALSE
              /\ g_last.ret = g_last.calls[1].res
              /\ IF g_last.ret = 0
                 THEN ~pullup_on /\ deactivated /\ connected
                 ELSE GState = g_last.pre
    /\ (LastIs("deactivate") /\ ~g_last.pre.deactivated /\ ~g_last.pre.connected)
           => /\ deactivated
              /\ ~connected
              /\ g_last.ret = 0
              /\ g_last.calls = <<>>
              /\ pullup_on = g_last.pre.pullup

\* C10 witness: a successful deactivate of an active, connected gadget whose
\* pullup was asserted.
C10_Witness ==
    /\ LastIs("deactivate")
    /\ ~g_last.pre.deactivated
    /\ g_last.pre.connected
    /\ g_last.pre.pullup
    /\ g_last.ret = 0
    /\ deactivated
    /\ connected
    /\ ~pullup_on

\* C11 as stated: activate on a deactivated gadget clears deactivated and,
\* exactly when the preserved intent is connected, performs connect so that
\* the pullup is asserted; otherwise the pullup operation is not invoked and
\* the pullup stays deasserted.
C11_Original ==
    (LastIs("activate") /\ g_last.pre.deactivated)
        => /\ ~deactivated
           /\ IF g_last.pre.connected
              THEN /\ Len(g_last.calls) = 1
                   /\ g_last.calls[1].is_on = TRUE
                   /\ pullup_on
              ELSE /\ g_last.calls = <<>>
                   /\ ~pullup_on

\* C11 amended: activate on a deactivated gadget clears deactivated and,
\* exactly when the preserved intent is connected, invokes pullup(on) once
\* and returns its result; the pullup is asserted if and only if that
\* invocation succeeds, and connected stays true either way.  When the intent
\* is false the pullup operation is not invoked, the pullup stays deasserted
\* and the call returns success.
C11_ActivateReplaysIntent ==
    (LastIs("activate") /\ g_last.pre.deactivated)
        => /\ ~deactivated
           /\ connected = g_last.pre.connected
           /\ IF g_last.pre.connected
              THEN /\ Len(g_last.calls) = 1
                   /\ g_last.calls[1].is_on = TRUE
                   /\ g_last.ret = g_last.calls[1].res
                   /\ pullup_on <=> (g_last.ret = 0)
              ELSE /\ g_last.calls = <<>>
                   /\ g_last.ret = 0
                   /\ ~pullup_on

\* C11 witness: a successful activate of a deactivated gadget holding a
\* connect intent has asserted the pullup.
C11_Witness ==
    /\ LastIs("activate")
    /\ g_last.pre.deactivated
    /\ g_last.pre.connected
    /\ ~g_last.pre.pullup
    /\ g_last.ret = 0
    /\ pullup_on
    /\ ~deactivated

\* C12: deactivate on an already deactivated gadget and activate on an
\* already active gadget return success, invoke no hardware operation and
\* change neither connected, deactivated nor the pullup, whatever connected
\* is.
C12_DeactivateActivateIdempotent ==
    /\ (LastIs("deactivate") /\ g_last.pre.deactivated)
           => /\ g_last.ret = 0
              /\ g_last.calls = <<>>
              /\ GState = g_last.pre
    /\ (LastIs("activate") /\ ~g_last.pre.deactivated)
           => /\ g_last.ret = 0
              /\ g_last.calls = <<>>
              /\ GState = g_last.pre

\* C12 witness: activate on an active gadget that is connected with the
\* pullup asserted.
C12_Witness ==
    /\ LastIs("activate")
    /\ ~g_last.pre.deactivated
    /\ g_last.pre.connected
    /\ pullup_on

\* The scenario of C13: from connected=false, deactivated=false the calls
\* deactivate, connect, activate were made in a row.
C13_Scenario ==
    /\ g_prev2.op = "deactivate"
    /\ ~g_prev2.pre.connected
    /\ ~g_prev2.pre.deactivated
    /\ g_prev.op = "connect"
    /\ LastIs("activate")

\* The general part of C13: after a successful activate of a deactivated
\* gadget the pullup is asserted if and only if the intent last recorded is
\* connected.
C13_General ==
    (LastIs("activate") /\ g_last.pre.deactivated /\ g_last.ret = 0)
        => (pullup_on <=> g_last.pre.connected)

\* C13 as stated: in the scenario the first two calls leave the pullup
\* untouched (deactivated=true after the first, connected=true after the
\* second) and the third asserts it; and the general part.
C13_Original ==
    /\ C13_Scenario
           => /\ g_prev2.calls = <<>>
              /\ g_prev.pre.deactivated
              /\ ~g_prev.pre.pullup
              /\ g_prev.calls = <<>>
              /\ g_last.pre.connected
              /\ ~g_last.pre.pullup
              /\ pullup_on
    /\ C13_General

\* C13 amended: in the scenario, on a gadget whose controller supplies a
\* pullup operation, the first two calls leave the pullup untouched
\* (deactivated=true after the first, connected=true after the second) and
\* the third invokes pullup(on) and asserts the pullup if that invocation
\* succeeds; in general, after a successful activate of a deactivated gadget
\* the pullup is asserted if and only if the intent last recorded is
\* connected.
C13_IntentReplayedOnActivate ==
    /\ (C13_Scenario /\ has_pullup)
           => /\ g_prev2.calls = <<>>
              /\ g_prev.pre.deactivated
              /\ ~g_prev.pre.pullup
              /\ g_prev.calls = <<>>
              /\ g_last.pre.connected
              /\ ~g_last.pre.pullup
              /\ Len(g_last.calls) = 1
              /\ g_last.calls[1].is_on = TRUE
              /\ (g_last.ret = 0) => pullup_on
    /\ C13_General

\* C13 witness: the scenario ran with every operation succeeding and the
\* pullup is asserted.
C13_Witness ==
    /\ C13_Scenario
    /\ has_pullup
    /\ g_last.ret = 0
    /\ pullup_on
    /\ connected
    /\ ~deactivated

\* C14 as stated: a second connect in a row changes nothing and leaves the
\* pullup asserted with connected=true; a second disconnect in a row
\* changes nothing and leaves the pullup deasserted with connected=false.
C14_Original ==
    /\ (g_prev.op = "connect" /\ LastIs("connect"))
           => /\ GState = g_last.pre
              /\ pullup_on
              /\ connected
    /\ (g_prev.op = "disconnect" /\ LastIs("disconnect"))
           => /\ GState = g_last.pre
              /\ ~pullup_on
              /\ ~connected

\* C14 amended: when the first of two connect calls in a row returns
\* success, the second leaves connected, deactivated and the pullup as the
\* first left them: connected=true, and the pullup asserted if the gadget is
\* not deactivated and untouched if it is.  Likewise for disconnect:
\* connected=false and the pullup deasserted.
C14_SecondCallChangesNothing ==
    /\ (g_prev.op = "connect" /\ LastIs("connect") /\ g_prev.ret = 0)
           => /\ GState = g_last.pre
              /\ connected
              /\ IF deactivated THEN pullup_on = g_prev.pre.pullup
                 ELSE pullup_on
    /\ (g_prev.op = "disconnect" /\ LastIs("disconnect") /\ g_prev.ret = 0)
           => /\ GState = g_last.pre
              /\ ~connected
              /\ ~pullup_on

\* C14 witness: two successful connects in a row on an active gadget, each
\* driving the hardware.
C14_Witness ==
    /\ g_prev.op = "connect"
    /\ LastIs("connect")
    /\ g_prev.ret = 0
    /\ g_last.ret = 0
    /\ ~g_prev.pre.connected
    /\ g_prev.calls # <<>>
    /\ g_last.calls # <<>>
    /\ pullup_on

\* C26 as stated: in no reachable state is the pullup asserted while the
\* device state is below attached.
C26_Original ==
    pullup_on => StateRank(state) >= StateRank("USB_STATE_ATTACHED")

\* A step that is a call of the connect/disconnect machine.
GadgetCallStep == <<g_last, g_prev, g_prev2>>' # <<g_last, g_prev, g_prev2>>

\* C26, amended: the connect/disconnect machine neither reads nor writes the
\* device state.  No call of it changes the device state, and in every
\* device state, not attached included, a successful usb_gadget_connect on
\* a gadget that is not deactivated, and a successful usb_gadget_activate of
\* a deactivated gadget that is to be connected, leave the pullup asserted.
C26_PullupIgnoresDeviceState ==
    [][GadgetCallStep =>
         /\ state' = state
         /\ (/\ g_last'.op = "connect" /\ g_last'.ret = 0
             /\ has_pullup /\ ~g_last'.pre.deactivated) => pullup_on'
         /\ (/\ g_last'.op = "activate" /\ g_last'.ret = 0
             /\ g_last'.pre.deactivated /\ g_last'.pre.connected)
            => pullup_on']_vars

\* The pullup asserted by usb_gadget_connect on a gadget no cable is
\* attached to.
C26_Witness ==
    /\ LastIs("connect") /\ g_last.ret = 0 /\ ~g_last.pre.pullup
    /\ pullup_on
    /\ state = "USB_STATE_NOTATTACHED"

\* C31 as stated: whenever connect, disconnect, deactivate or activate
\* returns an error, connected, deactivated and the pullup are the same as
\* before the call.
C31_Original ==
    (g_last.op # "none" /\ g_last.ret # 0) => GState = g_last.pre

\* C31, amended: an error returned by connect, disconnect or deactivate
\* leaves connected, deactivated and the pullup as they were; an error
\* returned by activate, which comes from the connect it makes for a
\* deactivated gadget that is to be connected, leaves connected and the
\* pullup as they were and deactivated cleared.
C31_ErrorKeepsState ==
    (g_last.op # "none" /\ g_last.ret # 0)
    => IF LastIs("activate")
       THEN /\ g_last.pre.deactivated /\ g_last.pre.connected
            /\ GState = [g_last.pre EXCEPT !.deactivated = FALSE]
       ELSE GState = g_last.pre

\* An activate that returned the error of its pullup call: the gadget is
\* active, to be connected, and the pullup is not asserted.
C31_Witness ==
    /\ LastIs("activate") /\ g_last.ret # 0
    /\ g_last.pre.deactivated
    /\ ~deactivated /\ connected /\ ~pullup_on

\* C32: after any sequence of connect, disconnect, deactivate and activate
\* calls from connected=false, deactivated=false, pullup off in which every
\* invocation of the pullup operation succeeded, an active gadget has the
\* pullup asserted if and only if connected is true.
C32_ConnectedTellsTruth ==
    (pullup_ok /\ ~deactivated) => (pullup_on <=> connected)

\* A gadget connected, deactivated and activated again, every pullup call
\* having succeeded: it is active, connected and the pullup is asserted.
C32_Witness ==
    /\ pullup_ok
    /\ g_prev2.op = "connect" /\ g_prev.op = "deactivate"
    /\ LastIs("activate") /\ g_last.pre.deactivated /\ g_last.pre.connected
    /\ ~deactivated /\ connected /\ pullup_on

(***************************************************************************)
(* Properties of the endpoint.                                             *)
(***************************************************************************)

ELastIs(op) == e_last.op = op

\* How many of the completions in `compl` are for request r.
CountFor(compl, r) == Cardinality({i \in DOMAIN compl : compl[i].req = r})

\* C2: when usb_ep_disable succeeds on an Enabled endpoint, every request
\* that was queued and not yet completed gets exactly one completion
\* callback, with status -ESHUTDOWN, before the call returns, and none of
\* them is completed after the call has returned.
C2_DisableCompletesEveryQueuedRequest ==
    (ELastIs("disable") /\ e_last.pre.enabled /\ e_last.ret = 0)
        => \A r \in Reqs :
             InQueue(e_last.pre.queue, r)
                => /\ CountFor(e_last.compl, r) = 1
                   /\ \A i \in DOMAIN e_last.compl :
                        e_last.compl[i].req = r
                            => e_last.compl[i].status = -ESHUTDOWN
                   /\ CountFor(e_last.after, r) = 0
                   /\ ~InQueue(queue, r)
                   /\ hw_done # r
                   /\ ncompl[r] = 1

\* C2 witness: a successful disable of an endpoint holding every request,
\* the first of them already finished by the hardware.
C2_Witness ==
    /\ ELastIs("disable")
    /\ e_last.pre.enabled
    /\ e_last.ret = 0
    /\ Len(e_last.pre.queue) = NumReqs
    /\ e_last.pre.hw_done # NoReq
    /\ Len(e_last.compl) = NumReqs

\* C3: usb_ep_dequeue of a request that is not queued on the endpoint (never
\* queued, or already completed) returns an error and delivers no
\* completion; for a request still queued it returns success and the
\* request's completion callback has run with -ECONNRESET by the time the
\* call returns.
C3_DequeueIsSynchronous ==
    ELastIs("dequeue")
        => IF InQueue(e_last.pre.queue, e_last.req)
           THEN /\ e_last.ret = 0
                /\ e_last.compl = <<Completion(e_last.req, -ECONNRESET)>>
                /\ ~InQueue(e_last.post.queue, e_last.req)
                /\ CountFor(e_last.after, e_last.req) = 0
           ELSE /\ e_last.ret < 0
                /\ e_last.compl = <<>>
                /\ e_last.post = e_last.pre

\* C3 witness: a queued request whose transfer the hardware had already
\* finished was dequeued before the interrupt was serviced.
C3_Witness ==
    /\ ELastIs("dequeue")
    /\ InQueue(e_last.pre.queue, e_last.req)
    /\ e_last.pre.hw_done = e_last.req
    /\ e_last.ret = 0
    /\ ncompl[e_last.req] = 1

\* C4: every accepted queue attempt yields exactly one completion callback:
\* never two, none for a request that was never accepted, and exactly one
\* once the request has left the queue or the endpoint has been disabled.
C4_ExactlyOneCompletion ==
    \A r \in Reqs :
        /\ ncompl[r] <= 1
        /\ ~accepted[r] => ncompl[r] = 0
        /\ (accepted[r] /\ (~InQueue(queue, r) \/ ~enabled)) => ncompl[r] = 1

\* C4 witness: one request was cancelled while its hardware completion was
\* pending, and another was then completed by the hardware.
C4_Witness ==
    /\ ELastIs("dequeue")
    /\ e_last.ret = 0
    /\ e_last.pre.hw_done = e_last.req
    /\ e_last.after # <<>>
    /\ \A r \in Reqs : accepted[r] /\ ncompl[r] = 1

\* C5: usb_ep_enable on an endpoint that is already Enabled and
\* usb_ep_disable on one that is already Disabled return success, invoke no
\* controller operation and leave the endpoint unchanged.
C5_EnableDisableIdempotent ==
    /\ (ELastIs("enable") /\ e_last.pre.enabled)
           => /\ e_last.ret = 0
              /\ e_last.ops = <<>>
              /\ e_last.compl = <<>>
              /\ e_last.post = e_last.pre
    /\ (ELastIs("disable") /\ ~e_last.pre.enabled)
           => /\ e_last.ret = 0
              /\ e_last.ops = <<>>
              /\ e_last.compl = <<>>
              /\ e_last.post = e_last.pre

\* C5 witness: a second enable of an Enabled endpoint that holds requests.
C5_Witness ==
    /\ ELastIs("enable")
    /\ e_last.pre.enabled
    /\ e_last.pre.queue # <<>>
    /\ enabled

\* C6: usb_ep_enable on a Disabled endpoint whose descriptor has max packet
\* size 0 returns -EINVAL, does not invoke the controller's enable operation
\* and leaves the endpoint Disabled, whatever maxpacket_limit is.
C6_ZeroMaxpacketRejected ==
    (/\ ELastIs("enable")
     /\ ~e_last.pre.enabled
     /\ e_last.pre.desc # NULL
     /\ usb_endpoint_maxp(e_last.pre.desc) = 0)
        => /\ e_last.ret = -EINVAL
           /\ e_last.ops = <<>>
           /\ ~e_last.post.enabled
           /\ ~e_last.post.hw_enabled
           /\ e_last.post = e_last.pre

\* C6 witness: the scenario with maxpacket_limit = 64 and a descriptor of
\* max packet size 0.
C6_Witness ==
    /\ ELastIs("enable")
    /\ ~e_last.pre.enabled
    /\ e_last.pre.desc # NULL
    /\ usb_endpoint_maxp(e_last.pre.desc) = 0
    /\ e_last.pre.maxpacket_limit = 64
    /\ e_last.ret = -EINVAL

\* C15: usb_ep_queue on a Disabled endpoint (never enabled, or disabled
\* after having been enabled), or while the device is disconnected, fails
\* with not-ready (-ESHUTDOWN) and the request is not accepted.
C15_QueueNotReady ==
    (ELastIs("queue") /\ (~e_last.pre.enabled \/ ~e_last.pre.link))
        => /\ e_last.ret = -ESHUTDOWN
           /\ e_last.compl = <<>>
           /\ e_last.post = e_last.pre
           /\ ~InQueue(e_last.post.queue, e_last.req)
           /\ CountFor(e_last.after, e_last.req) = 0

\* C15 witness: a request that had been accepted once is refused on the
\* endpoint after it was disabled, with the device still connected.
C15_Witness ==
    /\ ELastIs("queue")
    /\ accepted[e_last.req]
    /\ ~e_last.pre.enabled
    /\ e_last.pre.link
    /\ e_last.ret = -ESHUTDOWN
    /\ queue = <<>>

C17_ErrorCallbackFreezesQueue ==
    /\ ErrorCallbackRunning(cb) => (hw_started = NoReq /\ hw_done = NoReq)
    /\ (/\ ELastIs("dequeue")
        /\ ErrorCallbackRunning(e_last.cb)
        /\ InQueue(e_last.pre.queue, e_last.req))
           => /\ e_last.pre.hw_started = NoReq
              /\ e_last.pre.hw_done = NoReq
              /\ e_last.ret = 0
              /\ e_last.compl = <<Completion(e_last.req, -ECONNRESET)>>

\* C17 witness: inside the callback of a failed request the gadget driver
\* has dequeued a later request, and the callback has not yet returned.
C17_Witness ==
    /\ ELastIs("dequeue")
    /\ ErrorCallbackRunning(e_last.cb)
    /\ cb = e_last.cb
    /\ e_last.req # cb.req
    /\ InQueue(e_last.pre.queue, e_last.req)
    /\ e_last.ret = 0

\* C18: a usb_ep_queue call that returns an error delivers no completion
\* callback for that attempt and accepts nothing; a call that accepts the
\* request returns 0, and a failure of the transfer shows only in the status
\* of the completion delivered later.
C18_QueueErrorMeansNoCompletion ==
    ELastIs("queue")
        => /\ e_last.compl = <<>>
           /\ IF e_last.ret # 0
              THEN /\ e_last.post = e_last.pre
                   /\ CountFor(e_last.after, e_last.req) = 0
              ELSE /\ e_last.post.queue = Append(e_last.pre.queue, e_last.req)
                   /\ CountFor(e_last.after, e_last.req) <= 1

\* C18 witness: a queue call returned 0 and the transfer of its request then
\* failed, which its completion reported.
C18_Witness ==
    /\ ELastIs("queue")
    /\ e_last.ret = 0
    /\ \E i \in DOMAIN e_last.after :
         /\ e_last.after[i].req = e_last.req
         /\ e_last.after[i].status = -EINVAL

C23_FailedOpReturnedFlagKept ==
    /\ (ELastIs("enable") /\ e_last.opres # 0)
           => /\ e_last.ret = e_last.opres
              /\ e_last.ops = <<"enable">>
              /\ ~e_last.pre.enabled
              /\ ~e_last.post.enabled
    /\ (ELastIs("disable") /\ e_last.opres # 0)
           => /\ e_last.ret = e_last.opres
              /\ e_last.ops = <<"disable">>
              /\ e_last.pre.enabled
              /\ e_last.post.enabled

\* C23 witness: the controller refused to disable an endpoint with requests
\* queued, and the endpoint is still Enabled with them queued.
C23_Witness ==
    /\ ELastIs("disable")
    /\ e_last.opres = -EAGAIN
    /\ e_last.ret = -EAGAIN
    /\ enabled
    /\ queue # <<>>
    /\ queue = e_last.pre.queue

\* C25: in every reachable state of an endpoint maxpacket is at most
\* maxpacket_limit, and no step (enable, disable, queue, dequeue, the
\* caller's descriptor, the hardware, the bus) changes maxpacket_limit after
\* usb_ep_set_maxpacket_limit set it at initialization.
C25_MaxpacketWithinLimit ==
    /\ [](maxpacket <= maxpacket_limit)
    /\ [][maxpacket_limit' = maxpacket_limit]_vars

\* An endpoint enabled with a descriptor whose packet size is above the
\* hardware's limit.
C25_Witness ==
    /\ e_last.op = "enable" /\ e_last.ret = 0 /\ e_last.ops # <<>>
    /\ enabled /\ desc # NULL
    /\ usb_endpoint_maxp(desc) > maxpacket_limit

\* C33: over any sequence of usb_ep_enable and usb_ep_disable calls on one
\* endpoint, issued one at a time, the successful invocations of the
\* controller's enable and disable operations strictly alternate, starting
\* with enable.  (hw_enabled is written by nothing but a successful
\* controller enable, which sets it, and a successful controller disable,
\* which clears it, and it starts cleared: in the state before a call it
\* tells whether the last successful controller operation was an enable.)
C33_EnableDisableAlternate ==
    /\ (ELastIs("enable") /\ e_last.ops = <<"enable">> /\ e_last.opres = 0)
       => (~e_last.pre.hw_enabled /\ e_last.post.hw_enabled)
    /\ (ELastIs("disable") /\ e_last.ops = <<"disable">> /\ e_last.opres = 0)
       => (e_last.pre.hw_enabled /\ ~e_last.post.hw_enabled)

\* A successful controller disable, after the successful controller enable
\* that preceded it, has ended a cycle: the endpoint can be enabled again.
C33_Witness ==
    /\ ELastIs("disable") /\ e_last.ops = <<"disable">> /\ e_last.opres = 0
    /\ e_last.pre.hw_enabled /\ e_last.pre.enabled
    /\ ~hw_enabled /\ ~enabled

(***************************************************************************)
(* Properties of the optional operations.                                  *)
(***************************************************************************)
OLastIs(op) == o_last.op = op

\* C20: a wrapper never invokes an optional table entry that is absent:
\* with the entry absent fifo_status, restart, wakeup and func_wakeup return
\* -EOPNOTSUPP, fifo_flush does nothing, and set_wedge falls back to its
\* default, set_halt with value 1, whose result it returns.
C20_AbsentOptionalOpNeverInvoked ==
    /\ \A i \in DOMAIN o_last.invoked :
           o_last.invoked[i].name \in ops_present \cup {"set_halt"}
    /\ \A op \in {"fifo_status", "restart", "wakeup", "func_wakeup"} :
           (OLastIs(op) /\ op \notin ops_present)
               => /\ o_last.ret = -EOPNOTSUPP
                  /\ o_last.invoked = <<>>
                  /\ o_last.post = o_last.pre
    /\ (OLastIs("fifo_flush") /\ "fifo_flush" \notin ops_present)
           => /\ o_last.invoked = <<>>
              /\ o_last.post = o_last.pre
    /\ (OLastIs("set_wedge") /\ "set_wedge" \notin ops_present)
           => /\ Len(o_last.invoked) = 1
              /\ o_last.invoked[1].name = "set_halt"
              /\ o_last.invoked[1].arg = 1
              /\ o_last.ret = o_last.invoked[1].res
              /\ o_last.post = ops_set_halt(o_last.pre, 1, o_last.ret).h

\* C20 witness: fifo_status was called on a SuperSpeed gadget whose
\* controller supplies none of the optional entries, with bytes in the FIFO.
C20_Witness ==
    /\ ops_present = {}
    /\ speed = USB_SPEED_SUPER
    /\ OLastIs("fifo_status")
    /\ o_last.pre.fifo > 0
    /\ o_last.ret = -EOPNOTSUPP

C34_WedgeInvokesExactlyOne ==
    OLastIs("set_wedge")
    => /\ Len(o_last.invoked) = 1
       /\ o_last.ret = o_last.invoked[1].res
       /\ o_last.ret # -EOPNOTSUPP
       /\ IF "set_wedge" \in ops_present
          THEN /\ o_last.invoked[1].name = "set_wedge"
               /\ o_last.post = ops_set_wedge(o_last.pre, o_last.ret)
          ELSE /\ o_last.invoked[1].name = "set_halt"
               /\ o_last.invoked[1].arg = 1
               /\ o_last.post = ops_set_halt(o_last.pre, 1, o_last.ret).h

\* usb_ep_set_wedge on a controller without the set_wedge entry: set_halt
\* was invoked with value 1 and halted the endpoint, which is not wedged.
C34_Witness ==
    /\ OLastIs("set_wedge")
    /\ "set_wedge" \notin ops_present
    /\ o_last.invoked = <<OpCall("set_halt", 1, 0)>>
    /\ o_last.ret = 0
    /\ ~o_last.pre.halted /\ halted /\ ~wedged

\* A call of usb_gadget_func_wakeup: below SuperSpeed, or with the entry
\* absent, nothing is invoked and the answer is -EOPNOTSUPP; otherwise the
\* entry is invoked once and its result returned.
C35_FuncWakeupStep ==
    (o_last' # o_last /\ o_last'.op = "func_wakeup")
    => IF speed = USB_SPEED_SUPER /\ "func_wakeup" \in ops_present
       THEN /\ Len(o_last'.invoked) = 1
            /\ o_last'.invoked[1].name = "func_wakeup"
            /\ o_last'.ret = o_last'.invoked[1].res
       ELSE /\ o_last'.invoked = <<>>
            /\ o_last'.ret = -EOPNOTSUPP
            /\ o_last'.post = o_last'.pre

\* C35: usb_gadget_func_wakeup returns -EOPNOTSUPP without invoking the
\* controller whenever the gadget's speed is not SuperSpeed, even when the
\* func_wakeup entry is present; the operation is invoked only when the
\* speed is SuperSpeed and the entry is present.
C35_FuncWakeupNeedsSuperSpeed == [][C35_FuncWakeupStep]_vars

\* usb_gadget_func_wakeup at high speed on a controller that has the entry:
\* refused, nothing invoked.
C35_Witness ==
    /\ OLastIs("func_wakeup")
    /\ "func_wakeup" \in ops_present
    /\ speed = "USB_SPEED_HIGH"
    /\ o_last.ret = -EOPNOTSUPP
    /\ o_last.invoked = <<>>

(***************************************************************************)
(* Properties of the offload channel.                                      *)
(***************************************************************************)
\* C21: on an endpoint whose controller supplies no gsi_ep_op entry,
\* usb_gsi_ep_op returns -EOPNOTSUPP for every operation code, whatever the
\* endpoint's type tag and whatever was issued before, invokes nothing and
\* changes no endpoint state.
C21_GsiOpAbsentNotSupported ==
    (~has_gsi_ep_op /\ x_last.op # "none")
        => /\ x_last.ret = -EOPNOTSUPP
           /\ x_last.invoked = <<>>
           /\ ~x_last.done
           /\ x_last.post = x_last.pre
           /\ gsi_phase = "idle"
           /\ gsi_carried = {}

\* C21 witness: the disable operation code was issued on an endpoint tagged
\* hardware-accelerated whose controller has no gsi_ep_op entry.
C21_Witness ==
    /\ ~has_gsi_ep_op
    /\ ep_type = "EP_TYPE_GSI"
    /\ x_last.op = "GSI_EP_OP_DISABLE"
    /\ x_last.ret = -EOPNOTSUPP

\* An operation code issued with the channel not yet where the order wants
\* it: start before configure, update or doorbell before start, free before
\* end, disable before free.
C22_OutOfOrder(c, op) ==
    \/ op = "GSI_EP_OP_STARTXFER" /\ "GSI_EP_OP_CONFIG" \notin c
    \/ op \in {"GSI_EP_OP_UPDATEXFER", "GSI_EP_OP_RING_IN_DB"}
          /\ "GSI_EP_OP_STARTXFER" \notin c
    \/ op = "GSI_EP_OP_FREE_TRBS" /\ "GSI_EP_OP_ENDXFER" \notin c
    \/ op = "GSI_EP_OP_DISABLE" /\ "GSI_EP_OP_FREE_TRBS" \notin c

\* C22: on a hardware-accelerated endpoint, over any sequence of
\* usb_gsi_ep_op calls, configure was carried out before start transfer,
\* start transfer before every update-transfer or doorbell, end transfer
\* before freeing the ring and freeing before disable; an operation issued
\* out of this order is not carried out.
C22_GsiOrdering ==
    ep_type = "EP_TYPE_GSI"
        => /\ "GSI_EP_OP_STARTXFER" \in gsi_carried
                  => "GSI_EP_OP_CONFIG" \in gsi_carried
           /\ (gsi_carried \cap {"GSI_EP_OP_UPDATEXFER",
                                 "GSI_EP_OP_RING_IN_DB"}) # {}
                  => "GSI_EP_OP_STARTXFER" \in gsi_carried
           /\ "GSI_EP_OP_FREE_TRBS" \in gsi_carried
                  => "GSI_EP_OP_ENDXFER" \in gsi_carried
           /\ (x_last.op # "none" /\ C22_OutOfOrder(x_last.pre.carried, x_last.op))
                  => /\ ~x_last.done
                     /\ x_last.ret # 0
                     /\ x_last.post = x_last.pre

\* C22 witness: a whole life of the channel, configure to disable, has been
\* carried out in order.
C22_Witness ==
    /\ ep_type = "EP_TYPE_GSI"
    /\ x_last.op = "GSI_EP_OP_DISABLE"
    /\ x_last.done
    /\ x_last.pre.carried = GsiOrderedOps \ {"GSI_EP_OP_DISABLE"}
    /\ gsi_phase = "idle"

(***************************************************************************)
(* Properties of two calls running at once                                 *)
(***************************************************************************)
\* --- the two calls made one after the other ------------------------------
\* What is compared: the flags and the hardware.
EpSummary(e, ne, nd) == [enabled |-> e.enabled, hw_enabled |-> e.hw_enabled,
                         n_enable |-> ne, n_disable |-> nd]

Count(ops, name) == Cardinality({i \in DOMAIN ops : ops[i] = name})

EpCall(call, e, res) ==
    IF call = "enable" THEN usb_ep_enable([e EXCEPT !.desc = RaceDesc], res)
    ELSE usb_ep_disable(e, res)

GadgetCall(call, s, has, res) ==
    CASE call = "connect" -> usb_gadget_connect(s, has, res)
      [] call = "disconnect" -> usb_gadget_disconnect(s, has, res)
      [] call = "deactivate" -> usb_gadget_deactivate(s, has, res)
      [] call = "activate" -> usb_gadget_activate(s, has, res)

\* Every result of call c1 then call c2 from state s, whatever the
\* controller answers to each.
EpSequential(s, c1, c2) ==
    { LET o1 == EpCall(c1, s, res[1])
          o2 == EpCall(c2, o1.e, res[2])
      IN EpSummary(o2.e, Count(o1.ops \o o2.ops, "enable"),
                   Count(o1.ops \o o2.ops, "disable"))
      : res \in OpResults \X OpResults }

GadgetSequential(s, has, c1, c2) ==
    { GadgetCall(c2, GadgetCall(c1, s, has, res[1]).s, has, res[2]).s
      : res \in OpResults \X OpResults }

\* The results of the two calls in either order.
SequentialResults ==
    IF obj = "ep"
    THEN EpSequential(start.e, th[1].call, th[2].call)
         \cup EpSequential(start.e, th[2].call, th[1].call)
    ELSE GadgetSequential(start.g, has_pullup, th[1].call, th[2].call)
         \cup GadgetSequential(start.g, has_pullup, th[2].call, th[1].call)

RaceResult == IF obj = "ep" THEN EpSummary(EState, n_enable, n_disable)
              ELSE GState

BothReturned == \A t \in Threads : th[t].pc = "done"

\* C24 as stated: when two calls among enable/disable on one endpoint, or
\* among connect/disconnect/activate/deactivate on one gadget, run at once
\* with their statements interleaved, the flags and the hardware state they
\* leave are those of the same two calls made one after the other in some
\* order.
C24_Original == BothReturned => RaceResult \in SequentialResults

(***************************************************************************)
(* Properties of the transfers on the wire.                                *)
(***************************************************************************)
\* The sizes of the packets of request r seen on the wire, in order.
PacketsOf(r) ==
    LET ps == SelectSeq(wire, LAMBDA p : p.req = r)
    IN [i \in DOMAIN ps |-> ps[i].size]

CeilDiv(a, b) == (a + b - 1) \div b

\* ceil(L/M) data packets, all full but perhaps the last, and one
\* zero-length packet after them when zero is set and M divides L.
CeilPackets(rq, maxp) ==
    LET n == CeilDiv(rq.length, maxp)
        data == [i \in 1..n |-> IF i < n THEN maxp
                                ELSE rq.length - (n - 1) * maxp]
    IN IF rq.zero /\ rq.length % maxp = 0 THEN Append(data, 0) ELSE data

\* Every packet belongs to one request, and the requests follow one another
\* on the wire in the order of the queue.
NeverMerged ==
    \A i, j \in DOMAIN wire : i < j => wire[i].req <= wire[j].req

\* C29 as stated: a completed IN request of length L on an endpoint of max
\* packet size M was ceil(L/M) data packets, then one zero-length packet if
\* and only if zero is set and L is a multiple of M; packets of distinct
\* requests are never merged.
C29_Original ==
    t_dir = "in"
    => /\ NeverMerged
       /\ \A i \in DOMAIN t_compl :
            PacketsOf(t_compl[i].req)
               = CeilPackets(t_reqs[t_compl[i].req], t_maxp)

\* C29, amended: that holds of every request of length L > 0; a request of
\* length 0 is one zero-length packet whether zero is set or not.
C29_PacketsOfInRequest ==
    t_dir = "in"
    => /\ NeverMerged
       /\ \A i \in DOMAIN t_compl :
            LET rq == t_reqs[t_compl[i].req]
            IN /\ t_compl[i].actual = rq.length
               /\ PacketsOf(t_compl[i].req)
                     = IF rq.length = 0 THEN <<0>>
                       ELSE CeilPackets(rq, t_maxp)

\* A request of 128 bytes with zero set, completed on a 64-byte endpoint
\* after the packets 64, 64, 0, and followed by the packets of the next.
C29_Witness ==
    /\ t_dir = "in" /\ t_maxp = 64
    /\ Len(t_compl) = NumReqs
    /\ t_reqs[1].length = 128 /\ t_reqs[1].zero
    /\ PacketsOf(1) = <<64, 64, 0>>
    /\ t_reqs[NumReqs].length = 100
    /\ PacketsOf(NumReqs) = <<64, 36>>

RECURSIVE SumSeq(_)
SumSeq(s) == IF s = <<>> THEN 0 ELSE s[1] + SumSeq(Tail(s))

\* C30: a completed OUT request ended with its first packet that was short
\* or filled the buffer, every packet before it being full and leaving room;
\* actual is what arrived; when the last packet was short and left the
\* buffer unfilled the status is 0 with short_not_ok clear and the
\* data-underrun error with it set, and otherwise 0; and while the callback
\* of a request that ended in that error runs, no packet of a later request
\* is on the wire.  A request still under way has seen full packets only and
\* has room left.
C30_ShortRead ==
    t_dir = "out"
    => /\ \A i \in DOMAIN t_compl :
            LET r == t_compl[i].req
                rq == t_reqs[r]
                ps == PacketsOf(r)
                n == Len(ps)
            IN /\ n >= 1
               /\ \A k \in 1..(n - 1) :
                     ps[k] = t_maxp /\ SumSeq(SubSeq(ps, 1, k)) < rq.length
               /\ ps[n] < t_maxp \/ SumSeq(ps) = rq.length
               /\ t_compl[i].actual = SumSeq(ps)
               /\ t_compl[i].status =
                     IF ps[n] < t_maxp /\ SumSeq(ps) < rq.length
                        /\ rq.short_not_ok
                     THEN -EREMOTEIO ELSE 0
       /\ ErrorCallbackRunning(t_cb)
             => /\ t_cb.status = -EREMOTEIO
                /\ \A k \in DOMAIN wire : wire[k].req <= t_cb.req
       /\ (t_head <= Len(t_reqs) /\ ~t_ended)
             => /\ \A k \in DOMAIN PacketsOf(t_head) :
                      PacketsOf(t_head)[k] = t_maxp
                /\ PacketsOf(t_head) # <<>>
                      => SumSeq(PacketsOf(t_head)) < t_reqs[t_head].length

\* A read of 128 bytes with short_not_ok set that ended on a short packet
\* after one full packet: its callback runs with the data-underrun status
\* and the next request has moved nothing.
C30_Witness ==
    /\ t_dir = "out" /\ t_maxp = 64
    /\ t_reqs[1].length = 128 /\ t_reqs[1].short_not_ok
    /\ PacketsOf(1) = <<64, 4>>
    /\ t_cb = Completion(1, -EREMOTEIO)
    /\ t_compl = <<[req |-> 1, status |-> -EREMOTEIO, actual |-> 68]>>
    /\ t_head > 1 /\ t_moved = 0

(***************************************************************************)
(* Properties of the buffer alignment helpers.                             *)
(***************************************************************************)
\* The endpoint's max packet size: wMaxPacketSize masked to its low 11 bits.
AlignM == a_maxp % 2048

\* The smallest multiple of m that is greater than or equal to len.
SmallestMultiple(m, len) == ((len + m - 1) \div m) * m

\* C36: for an endpoint whose descriptor has a nonzero max packet size M
\* (wMaxPacketSize masked to its low 11 bits) and for every length len,
\* usb_ep_align returns the smallest multiple of M that is greater than or
\* equal to len, including when M is not a power of two.
C36_Original ==
    (a_ret.fn = "usb_ep_align" /\ AlignM # 0)
    => a_ret.ret = SmallestMultiple(AlignM, a_len)

(***************************************************************************)
(* Specifications: the gadget, the endpoint and the optional operations    *)
(* have no state in common.                                                *)
(***************************************************************************)
Init == GInit /\ EInit /\ OInit /\ ZInit /\ XInit /\ CInit /\ TInit /\ AInit

\* Each specification exercises one of them and holds the other two in one
\* of their initial states.
GIdle == has_pullup

EIdle == maxpacket_limit = 64

OIdle == ops_present = OptionalOps /\ dir_in

XIdle == has_gsi_ep_op /\ ep_type = "EP_TYPE_NORMAL"

InitGadget == Init /\ EIdle /\ OIdle /\ XIdle

InitEp == Init /\ GIdle /\ OIdle /\ XIdle

InitOps == Init /\ GIdle /\ EIdle /\ XIdle

InitEps == Init /\ GIdle /\ EIdle /\ OIdle /\ XIdle

InitGsi == Init /\ GIdle /\ EIdle /\ OIdle

InitHalt ==
    /\ Init /\ GIdle /\ EIdle /\ XIdle
    /\ ops_present \in {OptionalOps, OptionalOps \ {"set_wedge"}}

InitRace ==
    /\ RaceInit /\ OInit /\ OIdle /\ ZInit /\ XInit /\ XIdle /\ TInit
    /\ AInit

InitXfer ==
    /\ GInit /\ GIdle /\ EInit /\ EIdle /\ OInit /\ OIdle /\ ZInit
    /\ XInit /\ XIdle /\ CInit /\ XferInit /\ AInit

InitAlign ==
    /\ GInit /\ GIdle /\ EInit /\ EIdle /\ OInit /\ OIdle /\ ZInit
    /\ XInit /\ XIdle /\ CInit /\ TInit /\ AlignInit

SpecGadget == InitGadget /\ [][GNext]_vars

SpecEp == InitEp /\ [][ENext]_vars

SpecOps == InitOps /\ [][ONext]_vars

SpecEps == InitEps /\ [][EpsNext]_vars

SpecGsi == InitGsi /\ [][XNext]_vars

SpecHalt == InitHalt /\ [][HaltNext]_vars

SpecRace == InitRace /\ [][RaceNext]_vars

SpecXfer == InitXfer /\ [][XferNext]_vars

SpecAlign == InitAlign /\ [][AlignNext]_vars

====
